---------------------------- MODULE Spec2Model ----------------------------
(***************************************************************************)
(* A model of the text-input editing engine of crates/ui/src/input/state.rs *)
(* (InputState): buffer, selection, IME marked range, undo/redo history,    *)
(* UTF-8/UTF-16 offset translation and the editing commands.                *)
(*                                                                         *)
(* The buffer is a sequence of characters.  A character is a one-letter     *)
(* string standing for a code point of a given UTF-8 and UTF-16 width; all  *)
(* offsets are byte offsets, as in the source.                              *)
(***************************************************************************)
EXTENDS Integers, Sequences, FiniteSets, TLC

(***************************************************************************)
(* Bounds of the model.                                                    *)
(***************************************************************************)
\* Longest buffer, in characters, in the buffers drawn for the offset translation.
MaxConvLen == 3

(***************************************************************************)
(* Characters.                                                             *)
(*   "a" "b"  ASCII letters           1 byte,  1 UTF-16 unit                *)
(*   "1".."7" ASCII digits            1 byte,  1 unit                       *)
(*   "(" ")" "-" "." "_"  ASCII punctuation  1 byte, 1 unit                 *)
(*   "s"      space ' '               1 byte,  1 unit                       *)
(*   "n"      line feed '\n'          1 byte,  1 unit                       *)
(*   "e"      U+00E9 (e acute)        2 bytes, 1 unit                       *)
(*   "c"      U+0301 (combining acute) 2 bytes, 1 unit                      *)
(*   "j"      U+3042 (hiragana a)     3 bytes, 1 unit                       *)
(*   "m"      U+1F600 (emoji)         4 bytes, 2 units                      *)
(***************************************************************************)
Utf8Len(c) ==
    CASE c \in {"e", "c"} -> 2
      [] c = "j" -> 3
      [] c = "m" -> 4
      [] OTHER   -> 1

Utf16Len(c) == IF c = "m" THEN 2 ELSE 1

RECURSIVE SeqsUpTo(_, _)
\* All sequences over S of length at most n.
SeqsUpTo(S, n) ==
    IF n = 0 THEN {<<>>}
    ELSE LET shorter == SeqsUpTo(S, n - 1)
         IN  shorter \cup {Append(t, c) : t \in shorter, c \in S}

RECURSIVE ByteLen(_)
\* str::len(): the length of the buffer in UTF-8 bytes.
ByteLen(t) == IF t = <<>> THEN 0 ELSE Utf8Len(Head(t)) + ByteLen(Tail(t))

\* The byte offset at which character i of t starts (i = Len(t) + 1: the end).
CharStart(t, i) == ByteLen(SubSeq(t, 1, i - 1))

\* str::is_char_boundary.
IsCharBoundary(t, o) == \E i \in 1..(Len(t) + 1) : CharStart(t, i) = o

Min(a, b) == IF a < b THEN a ELSE b
Max(a, b) == IF a > b THEN a ELSE b

(***************************************************************************)
(* UTF-8 <-> UTF-16 offset translation, loop for loop.                     *)
(***************************************************************************)
RECURSIVE offset_from_utf16_loop(_, _, _, _, _)
offset_from_utf16_loop(t, i, utf8_offset, utf16_count, offset) ==
    IF i > Len(t) \/ utf16_count >= offset THEN utf8_offset
    ELSE offset_from_utf16_loop(t, i + 1, utf8_offset + Utf8Len(t[i]),
                                utf16_count + Utf16Len(t[i]), offset)

\* A slip: the UTF-16 offset is taken for a byte offset.
offset_from_utf16_bytewise(t, offset) == Min(offset, ByteLen(t))

offset_from_utf16(t, offset) == offset_from_utf16_loop(t, 1, 0, 0, offset)

RECURSIVE offset_to_utf16_loop(_, _, _, _, _)
offset_to_utf16_loop(t, i, utf16_offset, utf8_count, offset) ==
    IF i > Len(t) \/ utf8_count >= offset THEN utf16_offset
    ELSE offset_to_utf16_loop(t, i + 1, utf16_offset + Utf16Len(t[i]),
                              utf8_count + Utf8Len(t[i]), offset)

offset_to_utf16(t, offset) == offset_to_utf16_loop(t, 1, 0, 0, offset)

range_to_utf16(t, r) == <<offset_to_utf16(t, r[1]), offset_to_utf16(t, r[2])>>

range_from_utf16(t, r) == <<offset_from_utf16(t, r[1]), offset_from_utf16(t, r[2])>>

(***************************************************************************)
(* Ranges (std::ops::Range<usize>) are pairs <<start, end>>; Option::None   *)
(* is the empty tuple.                                                     *)
(***************************************************************************)
None == <<>>

\* Range::is_empty: start >= end.
IsEmptyRange(r) == r[1] >= r[2]

\* ExactSizeIterator::len of a range: 0 when start >= end.
RangeLen(r) == IF r[2] > r[1] THEN r[2] - r[1] ELSE 0

\* usize::saturating_sub.
SatSub(a, b) == IF a > b THEN a - b ELSE 0

\* `&self.text[range]` panics unless start <= end <= len on character boundaries.
SliceOk(t, r) ==
    /\ r[1] <= r[2]
    /\ r[2] <= ByteLen(t)
    /\ IsCharBoundary(t, r[1])
    /\ IsCharBoundary(t, r[2])

\* `&self.text[range]` for a range that SliceOk accepts.
Slice(t, r) ==
    LET idx == {i \in 1..Len(t) : CharStart(t, i) >= r[1] /\ CharStart(t, i) < r[2]}
    IN  IF idx = {} THEN <<>>
        ELSE SubSeq(t, CHOOSE i \in idx : \A j \in idx : i <= j,
                       CHOOSE i \in idx : \A j \in idx : i >= j)

\* text_for_range_utf8: the range goes to UTF-16 and back before it slices.
text_for_range_utf8_range(t, r) == range_from_utf16(t, range_to_utf16(t, r))
text_for_range_utf8_panics(t, r) == ~SliceOk(t, text_for_range_utf8_range(t, r))
text_for_range_utf8(t, r) == Slice(t, text_for_range_utf8_range(t, r))

\* EntityInputHandler::text_for_range.
text_for_range_panics(t, range_utf16) == ~SliceOk(t, range_from_utf16(t, range_utf16))
text_for_range(t, range_utf16) == Slice(t, range_from_utf16(t, range_utf16))

(***************************************************************************)
(* Grapheme clusters (unicode_segmentation, extended).  The combining mark  *)
(* "c" belongs to the cluster of the character before it; every other       *)
(* character of the alphabet starts a cluster.                              *)
(***************************************************************************)
grapheme_indices(t) == {CharStart(t, i) : i \in {k \in 1..Len(t) : k = 1 \/ t[k] # "c"}}

SetMax(S) == CHOOSE x \in S : \A y \in S : y <= x
SetMin(S) == CHOOSE x \in S : \A y \in S : x <= y

previous_boundary(t, offset) ==
    LET before == {idx \in grapheme_indices(t) : idx < offset}
    IN  IF before = {} THEN 0 ELSE SetMax(before)

\* A slip: the boundary at the offset itself counts as the next one.
next_boundary_inclusive(t, offset) ==
    LET after == {idx \in grapheme_indices(t) : idx >= offset}
    IN  IF after = {} THEN ByteLen(t) ELSE SetMin(after)

next_boundary(t, offset) ==
    LET after == {idx \in grapheme_indices(t) : idx > offset}
    IN  IF after = {} THEN ByteLen(t) ELSE SetMin(after)

(***************************************************************************)
(* Character classes.                                                      *)
(***************************************************************************)
IsDigit(c) == c \in {"1", "2", "3", "4", "5", "6", "7"}
IsLetter(c) == c \in {"a", "b", "e", "j"}
\* select_word's is_word: alphanumeric or '_'.
is_word(c) == IsDigit(c) \/ IsLetter(c) \/ c = "_"
\* char::is_whitespace.
IsWhitespace(c) == c \in {"s", "n"}

(***************************************************************************)
(* MaskPattern (crates/ui/src/input/mask_pattern.rs is not among the        *)
(* sources; modelled from the specification, section 4.5, and the doc       *)
(* comment of InputState::mask_pattern): a pattern is a sequence of tokens, *)
(* "9" a digit or dot, "A" a letter, "*" any character, any other character *)
(* a literal.  The empty pattern is MaskPattern::None.                      *)
(***************************************************************************)
IsLiteralToken(tok) == tok \notin {"9", "A", "*"}

token_is_match(tok, ch) ==
    CASE tok = "9" -> IsDigit(ch) \/ ch = "."
      [] tok = "A" -> IsLetter(ch)
      [] tok = "*" -> TRUE
      [] OTHER     -> ch = tok

RECURSIVE mask_is_valid_loop(_, _, _, _)
\* The candidate conforms token by token up to its length; a literal the
\* candidate lacks is one the mask will insert.
mask_is_valid_loop(pattern, k, txt, i) ==
    IF i > Len(txt) THEN TRUE
    ELSE IF k > Len(pattern) THEN FALSE
    ELSE IF IsLiteralToken(pattern[k])
         THEN mask_is_valid_loop(pattern, k + 1, txt,
                                 IF txt[i] = pattern[k] THEN i + 1 ELSE i)
         ELSE /\ token_is_match(pattern[k], txt[i])
              /\ mask_is_valid_loop(pattern, k + 1, txt, i + 1)

mask_is_valid(pattern, txt) ==
    pattern = <<>> \/ mask_is_valid_loop(pattern, 1, txt, 1)

RECURSIVE mask_loop(_, _, _, _)
\* Literals are inserted at their positions as the input reaches them.
mask_loop(pattern, k, txt, i) ==
    IF k > Len(pattern) \/ i > Len(txt) THEN <<>>
    ELSE IF IsLiteralToken(pattern[k])
         THEN <<pattern[k]>> \o mask_loop(pattern, k + 1, txt,
                                          IF txt[i] = pattern[k] THEN i + 1 ELSE i)
         ELSE IF token_is_match(pattern[k], txt[i])
              THEN <<txt[i]>> \o mask_loop(pattern, k + 1, txt, i + 1)
              ELSE <<>>

mask(pattern, txt) == IF pattern = <<>> THEN txt ELSE mask_loop(pattern, 1, txt, 1)

\* The characters at the placeholder positions: the literals are stripped.
unmask(pattern, txt) ==
    IF pattern = <<>> THEN txt
    ELSE LET n == Min(Len(pattern), Len(txt))
             RECURSIVE strip(_)
             strip(k) == IF k > n THEN <<>>
                         ELSE (IF IsLiteralToken(pattern[k]) THEN <<>> ELSE <<txt[k]>>)
                              \o strip(k + 1)
         IN  strip(1)

(***************************************************************************)
(* The custom validator (`validate: Option<Box<dyn Fn(&str) -> bool>>`):    *)
(* "none", or a named predicate.                                           *)
(***************************************************************************)
validate_fn(v, txt) ==
    CASE v = "no_b"   -> \A i \in 1..Len(txt) : txt[i] # "b"
      [] OTHER        -> TRUE

(***************************************************************************)
(* History<Change> (crates/ui/src/history.rs is not among the sources;      *)
(* modelled from the specification, section 4.4).  A history is a record    *)
(* [undos, redos, ignore, version]; the stacks grow at their end.  Changes  *)
(* of one group carry the same version.                                    *)
(***************************************************************************)
Change(old_range, old_text, new_range, new_text) ==
    [old_range |-> old_range, old_text |-> old_text,
     new_range |-> new_range, new_text |-> new_text, version |-> 0]

HistoryNew == [undos |-> <<>>, redos |-> <<>>, ignore |-> FALSE, version |-> 0]

\* push: `elapsed` says that more than the grouping interval has passed since
\* the last change, so the change opens a new group.  Pushing clears the redo
\* stack.
history_push(h, change, elapsed) ==
    LET v == IF elapsed THEN h.version + 1 ELSE h.version
    IN  [h EXCEPT !.version = v,
                  !.undos = Append(@, [change EXCEPT !.version = v]),
                  !.redos = <<>>]

\* The number of changes at the end of `stack` that form its last group.
RECURSIVE group_size(_, _)
group_size(stack, k) ==
    IF k >= Len(stack) THEN Len(stack)
    ELSE IF stack[Len(stack) - k].version = stack[Len(stack)].version
         THEN group_size(stack, k + 1)
         ELSE k

Reverse(q) == [i \in 1..Len(q) |-> q[Len(q) + 1 - i]]

\* The changes that History::undo returns (None: the empty sequence): the most
\* recent group, latest change first.
history_undo_changes(h) ==
    IF h.undos = <<>> THEN <<>>
    ELSE Reverse(SubSeq(h.undos, Len(h.undos) - group_size(h.undos, 1) + 1, Len(h.undos)))

\* The history after History::undo: the group moves to the redo stack.
history_undo(h) ==
    LET changes == history_undo_changes(h)
    IN  [h EXCEPT !.undos = SubSeq(@, 1, Len(@) - Len(changes)),
                  !.redos = @ \o changes]

\* The changes that History::redo returns: the most recently undone group,
\* earliest change first.
history_redo_changes(h) ==
    IF h.redos = <<>> THEN <<>>
    ELSE Reverse(SubSeq(h.redos, Len(h.redos) - group_size(h.redos, 1) + 1, Len(h.redos)))

history_redo(h) ==
    LET changes == history_redo_changes(h)
    IN  [h EXCEPT !.redos = SubSeq(@, 1, Len(@) - Len(changes)),
                  !.undos = @ \o changes]

(***************************************************************************)
(* The state of one InputState, as a record, so that a handler is a         *)
(* function from the state before to the state after.  `crashed` is set by  *)
(* a panic (a slice whose start exceeds its end); `events` are the          *)
(* InputEvents the running handler has emitted.                             *)
(***************************************************************************)
Panic(s) == [s EXCEPT !.crashed = TRUE]

Emit(s, e) == [s EXCEPT !.events = Append(@, e)]

is_single_line(s) == s.mode = "SingleLine"

is_multi_line(s) == s.mode \in {"MultiLine", "AutoGrow", "CodeEditor"}

\* InputMode::tab_size: the indent string of the modes that have one
\* (TabSize::default(): two spaces), None otherwise.
tab_indent(s) == IF s.mode \in {"MultiLine", "CodeEditor"} THEN <<"s", "s">> ELSE None

cursor_offset(s) ==
    IF s.marked_range # None THEN s.marked_range[2]
    ELSE IF s.selection_reversed THEN s.selected_range[1]
    ELSE s.selected_range[2]

(***************************************************************************)
(* The line layout (last_layout), which the element produces when it       *)
(* paints: one WrappedLine per '\n'-separated line of the buffer.  Every    *)
(* character is one cell wide and the x-coordinate of a position is its     *)
(* column.  last_layout is None before the first paint, then <<wrapped>>:   *)
(* a layout that wraps breaks a line after every WrapCells cells, one that  *)
(* does not is wide enough for every line.                                 *)
(***************************************************************************)
\* The cells of a visual line in a layout that wraps.
WrapCells == 2

RECURSIVE SplitLines(_)
SplitLines(t) ==
    LET nl == {i \in 1..Len(t) : t[i] = "n"}
    IN  IF nl = {} THEN <<t>>
        ELSE <<SubSeq(t, 1, SetMin(nl) - 1)>> \o SplitLines(SubSeq(t, SetMin(nl) + 1, Len(t)))

\* WrappedLine::wrap_boundaries.len(): the soft wraps of a line.
wrap_boundaries_len(line, layout) ==
    IF layout = None \/ ~layout[1] \/ line = <<>> THEN 0
    ELSE (Len(line) - 1) \div WrapCells

\* The characters of `line` in front of its visual line `sub`, and those in
\* front of the end of that visual line.
sub_line_start(line, layout, sub) == sub * WrapCells

sub_line_end(line, layout, sub) ==
    IF sub < wrap_boundaries_len(line, layout) THEN (sub + 1) * WrapCells ELSE Len(line)

\* The x-coordinate of byte index `local` of an unwrapped line: the cells before it.
x_for_index(line, local) == Cardinality({i \in 1..Len(line) : CharStart(line, i) < local})

\* WrappedLine::position_for_index: the visual line of byte index `local`,
\* the first one that ends at or behind it, and the x-coordinate in it.
position_for_index(line, layout, local) ==
    LET sub == SetMin({k \in 0..wrap_boundaries_len(line, layout) :
                          local <= CharStart(line, sub_line_end(line, layout, k) + 1)})
    IN  [sub |-> sub, x |-> x_for_index(line, local) - sub_line_start(line, layout, sub)]

RECURSIVE line_and_position_loop(_, _, _, _, _)
line_and_position_loop(lines, layout, line_index, prev_lines_offset, offset) ==
    IF line_index >= Len(lines) THEN [line_index |-> 0, sub_line_index |-> 0, pos |-> None]
    ELSE LET line == lines[line_index + 1]
             local_offset == SatSub(offset, prev_lines_offset)
         IN  IF local_offset <= ByteLen(line)
             THEN [line_index |-> line_index,
                   sub_line_index |-> position_for_index(line, layout, local_offset).sub,
                   pos |-> <<position_for_index(line, layout, local_offset).x>>]
             ELSE line_and_position_loop(lines, layout, line_index + 1,
                                         prev_lines_offset + ByteLen(line) + 1, offset)

line_and_position_for_offset(offset, lines, layout) ==
    line_and_position_loop(lines, layout, 0, 0, offset)

update_preferred_x_offset(s) ==
    IF s.last_layout = None THEN s
    ELSE LET lp == line_and_position_for_offset(cursor_offset(s), SplitLines(s.text),
                                                s.last_layout)
         IN  IF lp.pos = None THEN s
             ELSE [s EXCEPT !.preferred_x_offset = <<lp.pos[1]>>]

(***************************************************************************)
(* Cursor and selection.                                                   *)
(***************************************************************************)
\* The body of move_to with the clamp left out.
move_to_unclamped(s, offset) ==
    update_preferred_x_offset([s EXCEPT !.selected_range = <<offset, offset>>])

move_to(s, offset) ==
    LET o == Min(offset, ByteLen(s.text))
    IN  update_preferred_x_offset([s EXCEPT !.selected_range = <<o, o>>])

\* A slip: the bounds are swapped when the active end crosses the anchor, but
\* the reversed flag is left as it was.
select_to_unflipped(s, offset) ==
    LET o  == Min(offset, ByteLen(s.text))
        r1 == IF s.selection_reversed
              THEN <<o, s.selected_range[2]>>
              ELSE <<s.selected_range[1], o>>
        r2 == IF r1[2] < r1[1] THEN <<r1[2], r1[1]>> ELSE r1
        w  == s.selected_word_range
        r3 == IF w = None THEN r2
              ELSE <<IF r2[1] > w[1] THEN w[1] ELSE r2[1],
                     IF r2[2] < w[2] THEN w[2] ELSE r2[2]>>
        s1 == [s EXCEPT !.selected_range = r3]
    IN  IF IsEmptyRange(r3) THEN update_preferred_x_offset(s1) ELSE s1

\* A slip: the remembered word range is not looked at.
select_to_unconstrained(s, offset) ==
    LET o  == Min(offset, ByteLen(s.text))
        r1 == IF s.selection_reversed
              THEN <<o, s.selected_range[2]>>
              ELSE <<s.selected_range[1], o>>
        flip == r1[2] < r1[1]
        r2 == IF flip THEN <<r1[2], r1[1]>> ELSE r1
        s1 == [s EXCEPT !.selected_range = r2,
                        !.selection_reversed = IF flip THEN ~@ ELSE @]
    IN  IF IsEmptyRange(r2) THEN update_preferred_x_offset(s1) ELSE s1

select_to(s, offset) ==
    LET o  == Min(offset, ByteLen(s.text))
        r1 == IF s.selection_reversed
              THEN <<o, s.selected_range[2]>>
              ELSE <<s.selected_range[1], o>>
        flip == r1[2] < r1[1]
        r2 == IF flip THEN <<r1[2], r1[1]>> ELSE r1
        w  == s.selected_word_range
        r3 == IF w = None THEN r2
              ELSE <<IF r2[1] > w[1] THEN w[1] ELSE r2[1],
                     IF r2[2] < w[2] THEN w[2] ELSE r2[2]>>
        s1 == [s EXCEPT !.selected_range = r3,
                        !.selection_reversed = IF flip THEN ~@ ELSE @]
    IN  IF IsEmptyRange(r3) THEN update_preferred_x_offset(s1) ELSE s1

unselect(s) ==
    LET offset == next_boundary(s.text, cursor_offset(s))
    IN  [s EXCEPT !.selected_range = <<offset, offset>>]

RECURSIVE word_start(_, _, _)
\* select_word's walk over the characters before the offset, last one first.
word_start(prev_text, k, start) ==
    IF k = 0 \/ ~is_word(prev_text[k]) THEN start
    ELSE word_start(prev_text, k - 1, SatSub(start, Utf8Len(prev_text[k])))

RECURSIVE word_end(_, _, _)
word_end(next_text, k, end) ==
    IF k > Len(next_text) \/ ~is_word(next_text[k]) THEN end
    ELSE word_end(next_text, k + 1, end + Utf8Len(next_text[k]))

\* A slip: the walk backwards over the characters before the offset is left out.
select_word_forward(s, offset) ==
    LET t == s.text
        next_range == range_to_utf16(t, <<offset, ByteLen(t)>>)
    IN  IF text_for_range_panics(t, next_range) THEN Panic(s)
        ELSE LET next_text == text_for_range(t, next_range)
                 end == word_end(next_text, 1, offset)
             IN  IF offset = end THEN s
                 ELSE [s EXCEPT !.selected_range = <<offset, end>>,
                                !.selected_word_range = <<offset, end>>]

select_word(s, offset) ==
    LET t == s.text
        prev_range == range_to_utf16(t, <<0, offset>>)
        next_range == range_to_utf16(t, <<offset, ByteLen(t)>>)
    IN  IF text_for_range_panics(t, prev_range) \/ text_for_range_panics(t, next_range)
        THEN Panic(s)
        ELSE LET prev_text == text_for_range(t, prev_range)
                 next_text == text_for_range(t, next_range)
                 start == word_start(prev_text, Len(prev_text), offset)
                 end   == word_end(next_text, 1, offset)
             IN  IF start = end THEN s
                 ELSE [s EXCEPT !.selected_range = <<start, end>>,
                                !.selected_word_range = <<start, end>>]

(***************************************************************************)
(* Edit application.                                                       *)
(***************************************************************************)
is_valid_input(s, new_text) ==
    IF new_text = <<>> THEN TRUE
    ELSE IF s.validate # "none" /\ ~validate_fn(s.validate, new_text) THEN FALSE
    ELSE mask_is_valid(s.mask_pattern, new_text)

unmask_value(s) == unmask(s.mask_pattern, s.text)

\* push_history with the history.ignore check left out.
push_history_always(s, range, new_text, elapsed) ==
    LET r16 == range_to_utf16(s.text, range)
    IN  IF text_for_range_panics(s.text, r16) THEN Panic(s)
        ELSE LET old_text  == text_for_range(s.text, r16)
                 new_range == <<range[1], range[1] + ByteLen(new_text)>>
             IN  [s EXCEPT !.history = history_push(@, Change(range, old_text, new_range, new_text),
                                                    elapsed)]

push_history(s, range, new_text, elapsed) ==
    IF s.history.ignore THEN s
    ELSE LET r16 == range_to_utf16(s.text, range)
         IN  IF text_for_range_panics(s.text, r16) THEN Panic(s)
             ELSE LET old_text  == text_for_range(s.text, r16)
                      new_range == <<range[1], range[1] + ByteLen(new_text)>>
                  IN  [s EXCEPT !.history = history_push(@, Change(range, old_text, new_range, new_text),
                                                         elapsed)]

\* The range an edit applies to: the explicit UTF-16 range translated to
\* bytes, else the marked range, else the selection.
resolve_range(s, range_utf16) ==
    IF range_utf16 # None THEN range_from_utf16(s.text, range_utf16)
    ELSE IF s.marked_range # None THEN s.marked_range
    ELSE s.selected_range

\* before + new_text + after.
pending_text(s, range, new_text) ==
    text_for_range_utf8(s.text, <<0, range[1]>>) \o new_text
        \o text_for_range_utf8(s.text, <<range[2], ByteLen(s.text)>>)

pending_text_panics(s, range) ==
    \/ text_for_range_utf8_panics(s.text, <<0, range[1]>>)
    \/ text_for_range_utf8_panics(s.text, <<range[2], ByteLen(s.text)>>)

\* A slip: the caret is put behind the new text counted in characters, not
\* in bytes, and the mask is not asked.
apply_replace_chars(s, range, new_text, pending, elapsed) ==
    LET new_pos == Min(range[1] + Len(new_text), ByteLen(pending))
        s1 == push_history(s, range, new_text, elapsed)
    IN  IF s1.crashed THEN s1
        ELSE Emit([s1 EXCEPT !.text = mask(s.mask_pattern, pending),
                             !.selected_range = <<new_pos, new_pos>>,
                             !.marked_range = None], "Change")

\* A slip: the caret is put behind the typed text without counting the
\* literals that the mask has inserted before it.
apply_replace_before_literals(s, range, new_text, pending, elapsed) ==
    LET mask_text == mask(s.mask_pattern, pending)
        new_pos   == Min(range[1] + ByteLen(new_text), ByteLen(mask_text))
        s1 == push_history(s, range, new_text, elapsed)
    IN  IF s1.crashed THEN s1
        ELSE Emit([s1 EXCEPT !.text = mask_text,
                             !.selected_range = <<new_pos, new_pos>>,
                             !.marked_range = None], "Change")

\* replace_text_in_range once the edit has passed the validity check.
apply_replace(s, range, new_text, pending, elapsed) ==
    LET mask_text    == mask(s.mask_pattern, pending)
        new_text_len == SatSub(ByteLen(new_text) + ByteLen(mask_text), ByteLen(pending))
        new_pos      == Min(range[1] + new_text_len, ByteLen(mask_text))
        s1 == push_history(s, range, new_text, elapsed)
    IN  IF s1.crashed THEN s1
        ELSE LET s2 == [s1 EXCEPT !.text = mask_text,
                                  !.selected_range = <<new_pos, new_pos>>,
                                  !.marked_range = None]
                 s3 == update_preferred_x_offset(s2)
             IN  Emit(s3, "Change")

\* A slip: the buffer is written before the edit is validated.
replace_text_in_range_eager(s, range_utf16, new_text, elapsed) ==
    IF s.disabled THEN s
    ELSE LET range == resolve_range(s, range_utf16)
         IN  IF pending_text_panics(s, range) THEN Panic(s)
             ELSE LET pending == pending_text(s, range, new_text)
                  IN  IF ~is_valid_input(s, pending)
                      THEN [s EXCEPT !.text = mask(s.mask_pattern, pending)]
                      ELSE apply_replace(s, range, new_text, pending, elapsed)

replace_text_in_range(s, range_utf16, new_text, elapsed) ==
    IF s.disabled THEN s
    ELSE LET range == resolve_range(s, range_utf16)
         IN  IF pending_text_panics(s, range) THEN Panic(s)
             ELSE LET pending == pending_text(s, range, new_text)
                  IN  IF ~is_valid_input(s, pending) THEN s
                      ELSE apply_replace(s, range, new_text, pending, elapsed)

\* Mark text is the IME temporary insert on typing.
replace_and_mark_text_in_range(s, range_utf16, new_text, new_selected_range_utf16, elapsed) ==
    IF s.disabled THEN s
    ELSE LET range == resolve_range(s, range_utf16)
         IN  IF pending_text_panics(s, range) THEN Panic(s)
             ELSE LET pending == pending_text(s, range, new_text)
                  IN  IF ~is_valid_input(s, pending) THEN s
                      ELSE LET s1 == push_history(s, range, new_text, elapsed)
                           IN  IF s1.crashed THEN s1
                               ELSE LET s2 == [s1 EXCEPT !.text = pending]
                                        new_range == range_from_utf16(pending, new_selected_range_utf16)
                                        s3 == IF new_text = <<>>
                                              THEN [s2 EXCEPT !.selected_range = <<range[1], range[1]>>,
                                                              !.marked_range = None]
                                              ELSE [s2 EXCEPT
                                                     !.marked_range = <<range[1], range[1] + ByteLen(new_text)>>,
                                                     !.selected_range =
                                                         IF new_selected_range_utf16 # None
                                                         THEN <<new_range[1] + range[1], new_range[2] + range[2]>>
                                                         ELSE <<range[1] + ByteLen(new_text),
                                                                range[1] + ByteLen(new_text)>>]
                                    IN  Emit(s3, "Change")

(***************************************************************************)
(* Editing commands.  `elapsed` is the clock's part in a handler: whether   *)
(* the grouping interval has passed since the last recorded change when the *)
(* handler records its first one.                                          *)
(***************************************************************************)
\* A slip: the text replaces the selection instead of going in at the cursor.
insert_over_selection(s, txt, elapsed) ==
    LET s1 == replace_text_in_range(s, None, txt, elapsed)
    IN  IF s1.crashed THEN s1
        ELSE [s1 EXCEPT !.selected_range = <<s1.selected_range[2], s1.selected_range[2]>>]

insert(s, txt, elapsed) ==
    LET c  == cursor_offset(s)
        s1 == replace_text_in_range(s, range_to_utf16(s.text, <<c, c>>), txt, elapsed)
    IN  IF s1.crashed THEN s1
        ELSE [s1 EXCEPT !.selected_range = <<s1.selected_range[2], s1.selected_range[2]>>]

replace(s, txt, elapsed) ==
    LET s1 == replace_text_in_range(s, None, txt, elapsed)
    IN  IF s1.crashed THEN s1
        ELSE [s1 EXCEPT !.selected_range = <<s1.selected_range[2], s1.selected_range[2]>>]

RECURSIVE Utf16Count(_)
\* self.text.chars().map(|c| c.len_utf16()).sum()
Utf16Count(t) == IF t = <<>> THEN 0 ELSE Utf16Len(Head(t)) + Utf16Count(Tail(t))

replace_text(s, txt, elapsed) ==
    replace_text_in_range(s, <<0, Utf16Count(s.text)>>, txt, elapsed)

set_value(s, value) ==
    LET s1 == [s EXCEPT !.history.ignore = TRUE]
        s2 == replace_text(s1, value, TRUE)
    IN  IF s2.crashed THEN s2
        ELSE LET s3 == [s2 EXCEPT !.history.ignore = FALSE]
             IN  IF is_single_line(s3)
                 THEN [s3 EXCEPT !.selected_range = <<ByteLen(s3.text), ByteLen(s3.text)>>]
                 ELSE [s3 EXCEPT !.selected_range = <<0, 0>>]

left(s) ==
    IF IsEmptyRange(s.selected_range)
    THEN move_to(s, previous_boundary(s.text, cursor_offset(s)))
    ELSE move_to(s, s.selected_range[1])

right(s) ==
    IF IsEmptyRange(s.selected_range)
    THEN move_to(s, next_boundary(s.text, s.selected_range[2]))
    ELSE move_to(s, s.selected_range[2])

\* WrappedLine::index_for_position at (x, sub_line): Ok(i) with i the byte index
\* of the character under x, Err(end) with the byte index at which the visual
\* line ends when x is past its end, Err(0) when the line has no such visual line.
index_for_position(line, layout, x, sub_line) ==
    IF sub_line > wrap_boundaries_len(line, layout) THEN [ok |-> FALSE, i |-> 0]
    ELSE IF sub_line_start(line, layout, sub_line) + x < sub_line_end(line, layout, sub_line)
    THEN [ok |-> TRUE,  i |-> CharStart(line, sub_line_start(line, layout, sub_line) + x + 1)]
    ELSE [ok |-> FALSE, i |-> CharStart(line, sub_line_end(line, layout, sub_line) + 1)]

RECURSIVE prev_lines_offset(_, _)
\* The byte offset at which line `line_index` (0-based) starts.
prev_lines_offset(lines, line_index) ==
    IF line_index = 0 THEN 0
    ELSE prev_lines_offset(lines, line_index - 1) + ByteLen(lines[line_index]) + 1

move_vertical(s, direction) ==
    IF is_single_line(s) \/ s.last_layout = None THEN s
    ELSE LET lines == SplitLines(s.text)
             lp == line_and_position_for_offset(cursor_offset(s), lines, s.last_layout)
         IN  IF lp.pos = None THEN s
             ELSE LET current_x == IF s.preferred_x_offset # None
                                   THEN s.preferred_x_offset[1] ELSE lp.pos[1]
                      sub1 == lp.sub_line_index + direction
                      max_sub == wrap_boundaries_len(lines[lp.line_index + 1], s.last_layout)
                      target ==
                          IF sub1 < 0
                          THEN IF lp.line_index > 0
                               THEN [line |-> lp.line_index - 1,
                                     sub |-> wrap_boundaries_len(lines[lp.line_index], s.last_layout)]
                               ELSE [line |-> lp.line_index, sub |-> 0]
                          ELSE IF sub1 > max_sub
                               THEN IF lp.line_index < Len(lines) - 1
                                    THEN [line |-> lp.line_index + 1, sub |-> 0]
                                    ELSE [line |-> lp.line_index, sub |-> max_sub]
                               ELSE [line |-> lp.line_index, sub |-> sub1]
                  IN  IF direction = -1 /\ lp.line_index = 0 /\ sub1 < 0 THEN move_to(s, 0)
                      ELSE IF target.line = lp.line_index /\ target.sub = lp.sub_line_index THEN s
                      ELSE LET res == index_for_position(lines[target.line + 1], s.last_layout,
                                                    current_x, target.sub)
                               new_local_index == IF res.ok THEN res.i + 1 ELSE res.i
                               new_offset == Min(prev_lines_offset(lines, target.line) + new_local_index,
                                                 ByteLen(s.text))
                           IN  [s EXCEPT !.selected_range = <<new_offset, new_offset>>]

\* A slip: the event is emitted whether or not the buffer is empty.
up_emitting(s) ==
    LET s0 == Emit(s, "EmptyTextUp")
    IN  IF is_single_line(s0) THEN s0
        ELSE LET s1 == IF ~IsEmptyRange(s0.selected_range)
                       THEN move_to(s0, previous_boundary(s0.text, SatSub(s0.selected_range[1], 1)))
                       ELSE s0
             IN  move_vertical(s1, -1)

up(s) ==
    LET s0 == IF s.text = <<>> THEN Emit(s, "EmptyTextUp") ELSE s
    IN  IF is_single_line(s0) THEN s0
        ELSE LET s1 == IF ~IsEmptyRange(s0.selected_range)
                       THEN move_to(s0, previous_boundary(s0.text, SatSub(s0.selected_range[1], 1)))
                       ELSE s0
             IN  move_vertical(s1, -1)

down(s) ==
    IF is_single_line(s) THEN s
    ELSE LET s1 == IF ~IsEmptyRange(s.selected_range)
                   THEN move_to(s, next_boundary(s.text, SatSub(s.selected_range[2], 1)))
                   ELSE s
         IN  move_vertical(s1, 1)

select_left(s) == select_to(s, previous_boundary(s.text, cursor_offset(s)))

select_right(s) == select_to(s, next_boundary(s.text, cursor_offset(s)))

select_all(s) == select_to(move_to(s, 0), ByteLen(s.text))

\* The index after the last '\n' of txt, or 0: rfind('\n').map(|i| i + 1).unwrap_or(0).
after_last_newline(txt) ==
    LET nl == {i \in 1..Len(txt) : txt[i] = "n"}
    IN  IF nl = {} THEN 0 ELSE CharStart(txt, SetMax(nl)) + 1

\* The result of start_of_line; start_of_line_panics says that it panics instead.
start_of_line_range(s) ==
    range_to_utf16(s.text, <<0, previous_boundary(s.text, cursor_offset(s)) + 1>>)

start_of_line_panics(s) ==
    ~is_single_line(s) /\ text_for_range_panics(s.text, start_of_line_range(s))

start_of_line(s) ==
    IF is_single_line(s) THEN 0
    ELSE after_last_newline(text_for_range(s.text, start_of_line_range(s)))

start_of_line_of_selection_range(s) ==
    range_to_utf16(s.text,
        <<0, previous_boundary(s.text, Min(s.selected_range[1], s.selected_range[2])) + 1>>)

start_of_line_of_selection_panics(s) ==
    ~is_single_line(s) /\ text_for_range_panics(s.text, start_of_line_of_selection_range(s))

start_of_line_of_selection(s) ==
    IF is_single_line(s) THEN 0
    ELSE after_last_newline(text_for_range(s.text, start_of_line_of_selection_range(s)))

end_of_line_panics(s) ==
    LET offset == next_boundary(s.text, cursor_offset(s))
    IN  /\ ~is_single_line(s)
        /\ \/ offset > 0 /\ text_for_range_panics(s.text, range_to_utf16(s.text, <<offset - 1, offset>>))
           \/ text_for_range_panics(s.text, range_to_utf16(s.text, <<offset, ByteLen(s.text)>>))

end_of_line(s) ==
    IF is_single_line(s) THEN ByteLen(s.text)
    ELSE LET offset == next_boundary(s.text, cursor_offset(s))
         IN  IF offset > 0
                /\ text_for_range(s.text, range_to_utf16(s.text, <<offset - 1, offset>>)) = <<"n">>
             THEN offset
             ELSE LET rest == text_for_range(s.text, range_to_utf16(s.text, <<offset, ByteLen(s.text)>>))
                      nl == {i \in 1..Len(rest) : rest[i] = "n"}
                  IN  IF nl = {} THEN ByteLen(s.text)
                      ELSE CharStart(rest, SetMin(nl)) + offset

select_up(s) ==
    IF is_single_line(s) THEN s
    ELSE IF start_of_line_panics(s) THEN Panic(s)
    ELSE select_to(s, previous_boundary(s.text, SatSub(start_of_line(s), 1)))

select_down(s) ==
    IF is_single_line(s) THEN s
    ELSE IF end_of_line_panics(s) THEN Panic(s)
    ELSE select_to(s, next_boundary(s.text, Min(end_of_line(s) + 1, ByteLen(s.text))))

home(s) == IF start_of_line_panics(s) THEN Panic(s) ELSE move_to(s, start_of_line(s))

end(s) == IF end_of_line_panics(s) THEN Panic(s) ELSE move_to(s, end_of_line(s))

move_to_start(s) == move_to(s, 0)

move_to_end(s) == move_to(s, ByteLen(s.text))

(***************************************************************************)
(* Word boundaries (unicode_segmentation::split_word_bound_indices): letters *)
(* and digits run together, spaces run together, every other character is a *)
(* segment of its own.                                                     *)
(***************************************************************************)
WordJoins(c, d) ==
    \/ c \in {"a", "b", "e", "5"} /\ d \in {"a", "b", "e", "5"}
    \/ c = "s" /\ d = "s"

\* The character indices at which a segment of txt starts.
segment_starts(txt) == {k \in 1..Len(txt) : k = 1 \/ ~WordJoins(txt[k - 1], txt[k])}

\* The character index one past the segment that starts at k.
RECURSIVE segment_end(_, _)
segment_end(txt, k) ==
    IF k >= Len(txt) \/ ~WordJoins(txt[k], txt[k + 1]) THEN k + 1 ELSE segment_end(txt, k + 1)

\* The segments that are not all whitespace (`!s.trim_start().is_empty()`).
word_segment_starts(txt) == {k \in segment_starts(txt) : ~IsWhitespace(txt[k])}

previous_start_of_word_panics(s) == text_for_range_utf8_panics(s.text, <<0, s.selected_range[1]>>)

previous_start_of_word(s) ==
    LET prev_str == text_for_range_utf8(s.text, <<0, s.selected_range[1]>>)
        ws == word_segment_starts(prev_str)
    IN  IF ws = {} THEN 0 ELSE CharStart(prev_str, SetMax(ws))

next_end_of_word_panics(s) ==
    text_for_range_utf8_panics(s.text, <<cursor_offset(s), ByteLen(s.text)>>)

next_end_of_word(s) ==
    LET offset == cursor_offset(s)
        next_str == text_for_range_utf8(s.text, <<offset, ByteLen(s.text)>>)
        ws == word_segment_starts(next_str)
    IN  IF ws = {} THEN ByteLen(s.text)
        ELSE offset + CharStart(next_str, segment_end(next_str, SetMin(ws)))

move_to_previous_word(s) ==
    IF previous_start_of_word_panics(s) THEN Panic(s) ELSE move_to(s, previous_start_of_word(s))

move_to_next_word(s) ==
    IF next_end_of_word_panics(s) THEN Panic(s) ELSE move_to(s, next_end_of_word(s))

select_to_start(s) == select_to(s, 0)

select_to_end(s) == select_to(s, ByteLen(s.text))

select_to_start_of_line(s) ==
    IF start_of_line_panics(s) THEN Panic(s)
    ELSE select_to(s, previous_boundary(s.text, start_of_line(s)))

select_to_end_of_line(s) ==
    IF end_of_line_panics(s) THEN Panic(s)
    ELSE select_to(s, next_boundary(s.text, end_of_line(s)))

select_to_previous_word(s) ==
    IF previous_start_of_word_panics(s) THEN Panic(s) ELSE select_to(s, previous_start_of_word(s))

select_to_next_word(s) ==
    IF next_end_of_word_panics(s) THEN Panic(s) ELSE select_to(s, next_end_of_word(s))

(***************************************************************************)
(* Deleting, indenting, clipboard, mouse, undo and redo.                   *)
(***************************************************************************)
backspace(s, elapsed) ==
    LET s1 == IF IsEmptyRange(s.selected_range)
              THEN select_to(s, previous_boundary(s.text, cursor_offset(s)))
              ELSE s
    IN  replace_text_in_range(s1, None, <<>>, elapsed)

delete(s, elapsed) ==
    LET s1 == IF IsEmptyRange(s.selected_range)
              THEN select_to(s, next_boundary(s.text, cursor_offset(s)))
              ELSE s
    IN  replace_text_in_range(s1, None, <<>>, elapsed)

delete_to_beginning_of_line(s, elapsed) ==
    IF start_of_line_panics(s) THEN Panic(s)
    ELSE LET sol == start_of_line(s)
             offset == IF sol = cursor_offset(s) THEN SatSub(sol, 1) ELSE sol
         IN  replace_text_in_range(s, range_to_utf16(s.text, <<offset, cursor_offset(s)>>),
                                   <<>>, elapsed)

delete_to_end_of_line(s, elapsed) ==
    IF end_of_line_panics(s) THEN Panic(s)
    ELSE LET eol == end_of_line(s)
             offset == IF eol = cursor_offset(s) THEN Min(eol + 1, ByteLen(s.text)) ELSE eol
         IN  replace_text_in_range(s, range_to_utf16(s.text, <<cursor_offset(s), offset>>),
                                   <<>>, elapsed)

delete_previous_word(s, elapsed) ==
    IF previous_start_of_word_panics(s) THEN Panic(s)
    ELSE replace_text_in_range(s,
             range_to_utf16(s.text, <<previous_start_of_word(s), cursor_offset(s)>>),
             <<>>, elapsed)

delete_next_word(s, elapsed) ==
    IF next_end_of_word_panics(s) THEN Panic(s)
    ELSE replace_text_in_range(s,
             range_to_utf16(s.text, <<cursor_offset(s), next_end_of_word(s)>>),
             <<>>, elapsed)

RECURSIVE leading_indent(_, _)
\* The whitespace, up to a line break, that txt has from character k on.
leading_indent(txt, k) ==
    IF k > Len(txt) \/ ~IsWhitespace(txt[k]) \/ txt[k] = "n" THEN <<>>
    ELSE <<txt[k]>> \o leading_indent(txt, k + 1)

\* `self.text.chars().skip(pos)`: the position is used as a character count.
indent_of_next_line(s) ==
    IF is_single_line(s) THEN <<>>
    ELSE LET current_indent == leading_indent(s.text, start_of_line(s) + 1)
             next_indent    == leading_indent(s.text, end_of_line(s) + 1)
         IN  IF ByteLen(next_indent) > ByteLen(current_indent) THEN next_indent ELSE current_indent

enter(s, secondary, elapsed) ==
    IF is_multi_line(s) /\ ~secondary
    THEN IF s.mode = "CodeEditor" /\ (start_of_line_panics(s) \/ end_of_line_panics(s))
         THEN Panic(s)
         ELSE LET indent == IF s.mode = "CodeEditor" THEN indent_of_next_line(s) ELSE <<>>
                  s1 == replace_text_in_range(s, None, <<"n">> \o indent, elapsed)
              IN  IF s1.crashed THEN s1 ELSE Emit(s1, "PressEnter")
    ELSE Emit(s, "PressEnter")

RECURSIVE indent_lines(_, _, _, _, _)
\* indent's loop over the lines of the selected text; the result is the state
\* after the last replacement.
indent_lines(s, lines, k, offset, elapsed) ==
    IF k > Len(lines) \/ s.crashed THEN s
    ELSE LET s1 == replace_text_in_range(s, range_to_utf16(s.text, <<offset, offset>>),
                                         tab_indent(s), elapsed)
         IN  indent_lines(s1, lines, k + 1,
                          offset + ByteLen(lines[k]) + ByteLen(tab_indent(s)) + 1,
                          elapsed /\ s1.history = s.history)

indent(s, elapsed) ==
    IF tab_indent(s) = None THEN s
    ELSE LET selected_range == s.selected_range
             tab_len == ByteLen(tab_indent(s))
         IN  IF ~IsEmptyRange(s.selected_range)
             THEN IF start_of_line_of_selection_panics(s) THEN Panic(s)
                  ELSE LET start_offset == start_of_line_of_selection(s)
                           r16 == range_to_utf16(s.text, <<start_offset, selected_range[2]>>)
                       IN  IF text_for_range_panics(s.text, r16) THEN Panic(s)
                           ELSE LET lines == SplitLines(text_for_range(s.text, r16))
                                    s1 == indent_lines(s, lines, 1, start_offset, elapsed)
                                IN  IF s1.crashed THEN s1
                                    ELSE [s1 EXCEPT !.selected_range =
                                              <<start_offset, selected_range[2] + Len(lines) * tab_len>>]
             ELSE LET offset == s.selected_range[1]
                      s1 == replace_text_in_range(s, range_to_utf16(s.text, <<offset, offset>>),
                                                  tab_indent(s), elapsed)
                  IN  IF s1.crashed THEN s1
                      ELSE [s1 EXCEPT !.selected_range =
                                <<selected_range[1] + tab_len, selected_range[2] + tab_len>>]

\* line.starts_with(tab_indent)
StartsWith(txt, prefix) == Len(txt) >= Len(prefix) /\ SubSeq(txt, 1, Len(prefix)) = prefix

RECURSIVE outdent_lines(_, _, _, _, _)
\* outdent's loop; the result is the state after the last replacement and the
\* number of bytes removed.
outdent_lines(acc, lines, k, offset, elapsed) ==
    IF k > Len(lines) \/ acc.s.crashed THEN acc
    ELSE LET s == acc.s
             tab == tab_indent(s)
         IN  IF StartsWith(lines[k], tab)
             THEN LET s1 == replace_text_in_range(s,
                                range_to_utf16(s.text, <<offset, offset + ByteLen(tab)>>),
                                <<>>, elapsed)
                  IN  outdent_lines(
                          [s |-> s1, removed_len |-> acc.removed_len + ByteLen(tab)],
                          lines, k + 1, offset + SatSub(ByteLen(lines[k]), ByteLen(tab)) + 1,
                          elapsed /\ s1.history = s.history)
             ELSE outdent_lines(acc, lines, k + 1, offset + ByteLen(lines[k]) + 1, elapsed)

outdent(s, elapsed) ==
    IF tab_indent(s) = None THEN s
    ELSE LET selected_range == s.selected_range
             tab == tab_indent(s)
         IN  IF start_of_line_of_selection_panics(s) THEN Panic(s)
             ELSE IF ~IsEmptyRange(s.selected_range)
             THEN LET start_offset == start_of_line_of_selection(s)
                      r16 == range_to_utf16(s.text, <<start_offset, selected_range[2]>>)
                  IN  IF text_for_range_panics(s.text, r16) THEN Panic(s)
                      ELSE LET lines == SplitLines(text_for_range(s.text, r16))
                               res == outdent_lines([s |-> s, removed_len |-> 0], lines, 1,
                                                    start_offset, elapsed)
                           IN  IF res.s.crashed THEN res.s
                               ELSE [res.s EXCEPT !.selected_range =
                                         <<start_offset, SatSub(selected_range[2], res.removed_len)>>]
             ELSE LET start_offset == s.selected_range[1]
                      offset == start_of_line_of_selection(s)
                  IN  IF text_for_range_utf8_panics(s.text, <<offset, ByteLen(s.text)>>) THEN Panic(s)
                      ELSE IF StartsWith(text_for_range_utf8(s.text, <<offset, ByteLen(s.text)>>), tab)
                      THEN LET s1 == replace_text_in_range(s,
                                         range_to_utf16(s.text, <<offset, offset + ByteLen(tab)>>),
                                         <<>>, elapsed)
                               new_offset == SatSub(start_offset, ByteLen(tab))
                           IN  IF s1.crashed THEN s1
                               ELSE [s1 EXCEPT !.selected_range = <<new_offset, new_offset>>]
                      ELSE s

clean(s, elapsed) == replace_text(s, <<>>, elapsed)

unmark_text(s) == [s EXCEPT !.marked_range = None]

escape(s, elapsed) ==
    LET s1 == IF s.marked_range # None THEN unmark_text(s) ELSE s
    IN  IF RangeLen(s1.selected_range) > 0 THEN unselect(s1)
        ELSE IF s1.clean_on_escape THEN clean(s1, elapsed)
        ELSE Emit(s1, "PressEscape")

\* index_for_mouse_position: `hit` is the index the layout gives for the
\* position of the mouse.
index_for_mouse_position(s, hit) ==
    IF s.text = <<>> \/ s.last_layout = None THEN 0
    ELSE IF hit > ByteLen(s.text) THEN ByteLen(s.text) ELSE hit

on_mouse_down(s, hit, double_click, shift) ==
    LET s1 == IF s.marked_range # None /\ RangeLen(s.marked_range) = 0
              THEN [s EXCEPT !.marked_range = None] ELSE s
        s2 == [s1 EXCEPT !.selecting = TRUE]
        offset == index_for_mouse_position(s2, hit)
    IN  IF double_click THEN select_word(s2, offset)
        ELSE IF shift THEN select_to(s2, offset)
        ELSE move_to(s2, offset)

on_mouse_up(s) == [s EXCEPT !.selecting = FALSE, !.selected_word_range = None]

on_drag_move(s, hit) ==
    IF s.text = <<>> \/ s.last_layout = None \/ ~s.selecting THEN s
    ELSE select_to(s, index_for_mouse_position(s, hit))

cut(s, elapsed) ==
    IF IsEmptyRange(s.selected_range) THEN s
    ELSE IF text_for_range_utf8_panics(s.text, s.selected_range) THEN Panic(s)
    ELSE replace_text_in_range(s, None, <<>>, elapsed)

\* new_text.replace('\n', "")
WithoutNewlines(txt) == SelectSeq(txt, LAMBDA c : c # "n")

paste(s, clipboard, elapsed) ==
    replace_text_in_range(s, None,
        IF is_multi_line(s) THEN clipboard ELSE WithoutNewlines(clipboard), elapsed)

RECURSIVE undo_changes(_, _, _)
undo_changes(s, changes, k) ==
    IF k > Len(changes) \/ s.crashed THEN s
    ELSE undo_changes(
             replace_text_in_range(s, range_to_utf16(s.text, changes[k].new_range),
                                   changes[k].old_text, FALSE),
             changes, k + 1)

undo(s) ==
    LET s1 == [s EXCEPT !.history = [history_undo(@) EXCEPT !.ignore = TRUE]]
        s2 == undo_changes(s1, history_undo_changes(s.history), 1)
    IN  IF s2.crashed THEN s2 ELSE [s2 EXCEPT !.history.ignore = FALSE]

RECURSIVE redo_changes(_, _, _)
redo_changes(s, changes, k) ==
    IF k > Len(changes) \/ s.crashed THEN s
    ELSE redo_changes(
             replace_text_in_range(s, range_to_utf16(s.text, changes[k].old_range),
                                   changes[k].new_text, FALSE),
             changes, k + 1)

\* A slip of the pen: redo takes its changes from History::undo.
redo_from_undo_stack(s) ==
    LET s1 == [s EXCEPT !.history = [history_undo(@) EXCEPT !.ignore = TRUE]]
        s2 == redo_changes(s1, history_undo_changes(s.history), 1)
    IN  IF s2.crashed THEN s2 ELSE [s2 EXCEPT !.history.ignore = FALSE]

redo(s) ==
    LET s1 == [s EXCEPT !.history = [history_redo(@) EXCEPT !.ignore = TRUE]]
        s2 == redo_changes(s1, history_redo_changes(s.history), 1)
    IN  IF s2.crashed THEN s2 ELSE [s2 EXCEPT !.history.ignore = FALSE]

on_blur(s) == Emit(unselect(s), "Blur")

set_disabled(s, d) == [s EXCEPT !.disabled = d]

(***************************************************************************)
(* The focus registry (crates/ui/src/focus.rs): the handle of every         *)
(* registered element, the order in which tab visits the elements, and the  *)
(* elements that have a click handler.  `handles` is a function from the    *)
(* registered ids to their handles.  A handler below is a function from the *)
(* registry before to the registry after; focus_next and focus_previous     *)
(* give the handle that the window focuses.                                 *)
(***************************************************************************)
FocusRegistryNew == [handles |-> [id \in {} |-> 0], order |-> <<>>, button_handlers |-> {}]

\* HashMap::insert and HashMap::remove.
MapInsert(m, key, value) == [k \in DOMAIN m \cup {key} |-> IF k = key THEN value ELSE m[k]]

MapRemove(m, key) == [k \in DOMAIN m \ {key} |-> m[k]]

\* Vec::insert(index, element).
VecInsert(q, index, element) ==
    SubSeq(q, 1, index) \o <<element>> \o SubSeq(q, index + 1, Len(q))

register_button_handler(reg, element_id) ==
    [reg EXCEPT !.button_handlers = @ \cup {element_id}]

remove_focus(reg, element_id) ==
    [reg EXCEPT !.button_handlers = @ \ {element_id},
                !.handles = MapRemove(@, element_id),
                !.order = SelectSeq(@, LAMBDA id : id # element_id)]

\* A slip: the id is added to the order whether or not it is registered.
register_focusable_again(reg, element_id, handle) ==
    [reg EXCEPT !.order = Append(@, element_id),
                !.handles = MapInsert(@, element_id, handle)]

register_focusable(reg, element_id, handle) ==
    [reg EXCEPT !.order = IF element_id \notin DOMAIN reg.handles
                          THEN Append(@, element_id) ELSE @,
                !.handles = MapInsert(@, element_id, handle)]

register_focusable_with_priority(reg, element_id, handle) ==
    [reg EXCEPT !.order = IF element_id \notin DOMAIN reg.handles
                          THEN VecInsert(@, 0, element_id) ELSE @,
                !.handles = MapInsert(@, element_id, handle)]

register_focusable_with_index(reg, element_id, handle, priority_index) ==
    [reg EXCEPT !.order = IF element_id \notin DOMAIN reg.handles
                          THEN VecInsert(@, Min(priority_index, Len(reg.order)), element_id)
                          ELSE @,
                !.handles = MapInsert(@, element_id, handle)]

\* get_or_create_focus_handle and its two variants: the registry after the
\* call, `handle` being the one that cx.focus_handle() creates.
get_or_create_focus_handle(reg, element_id, handle) ==
    IF element_id \in DOMAIN reg.handles THEN reg
    ELSE register_focusable(reg, element_id, handle)

get_or_create_focus_handle_with_priority(reg, element_id, handle) ==
    IF element_id \in DOMAIN reg.handles THEN reg
    ELSE register_focusable_with_priority(reg, element_id, handle)

get_or_create_focus_handle_with_index(reg, element_id, handle, priority_index) ==
    IF element_id \in DOMAIN reg.handles THEN reg
    ELSE register_focusable_with_index(reg, element_id, handle, priority_index)

\* registry.order.iter().position(..): the 0-based index of the first element
\* of the order whose handle is focused, None when there is none.
focused_position(reg, window_focus) ==
    LET at == {i \in 1..Len(reg.order) :
                   /\ reg.order[i] \in DOMAIN reg.handles
                   /\ window_focus = <<reg.handles[reg.order[i]]>>}
    IN  IF at = {} THEN None ELSE <<SetMin(at) - 1>>

\* The focus of the window after handle.focus(window) on the element at
\* index idx of the order, when it has a handle.
focus_at(reg, window_focus, idx) ==
    IF idx < Len(reg.order) /\ reg.order[idx + 1] \in DOMAIN reg.handles
    THEN <<reg.handles[reg.order[idx + 1]]>>
    ELSE window_focus

focus_next(reg, window_focus) ==
    IF reg.order = <<>> THEN window_focus
    ELSE LET current_idx == focused_position(reg, window_focus)
             next_idx == IF current_idx # None THEN (current_idx[1] + 1) % Len(reg.order) ELSE 0
         IN  focus_at(reg, window_focus, next_idx)

focus_previous(reg, window_focus) ==
    IF reg.order = <<>> THEN window_focus
    ELSE LET current_idx == focused_position(reg, window_focus)
             prev_idx == IF current_idx # None
                         THEN IF current_idx[1] = 0 THEN Len(reg.order) - 1
                              ELSE current_idx[1] - 1
                         ELSE Len(reg.order) - 1
         IN  focus_at(reg, window_focus, prev_idx)

(***************************************************************************)
(* The chat (crates/control/src/state.rs): the messages (their ids, oldest  *)
(* first), the message that has the focus and whether the text area is      *)
(* shown as focused.                                                        *)
(***************************************************************************)
ChatStateNew ==
    [messages |-> <<>>, last_id |-> 0, streaming |-> FALSE, edit_message_id |-> None,
     focused_message_idx |-> None, fake_focused_textarea |-> FALSE]

(***************************************************************************)
(* The state machine.  The variables are the fields of InputState that the  *)
(* handlers read and write, and beside them:                                *)
(*   steps  the number of handlers that may still run, or None where a      *)
(*          specification explores every sequence of handlers;              *)
(*   last   the handler that ran last, how it ended and its argument (an    *)
(*          offset, or the range and text of an input-method call);         *)
(*   track  what is remembered of a run of edits, undos and redos;          *)
(*   conv   the last offset conversion and its result;                      *)
(*   registry, focused  the FocusRegistry of the application and the handle *)
(*          that has the focus of the window, None when none has;           *)
(*   chat   the ChatState of the application.                               *)
(***************************************************************************)
VARIABLES text, selected_range, selection_reversed, marked_range, selected_word_range,
          selecting, disabled, history, mode, mask_pattern, validate, clean_on_escape,
          last_layout, preferred_x_offset, crashed, events, steps, last, track, conv,
          registry, focused, chat

\* The fields of the InputState.
input_vars == <<text, selected_range, selection_reversed, marked_range, selected_word_range,
                selecting, disabled, history, mode, mask_pattern, validate, clean_on_escape,
                last_layout, preferred_x_offset, crashed, events>>

vars == <<input_vars, steps, last, track, conv, registry, focused, chat>>

MaxSteps == 2

State ==
    [text |-> text, selected_range |-> selected_range,
     selection_reversed |-> selection_reversed, marked_range |-> marked_range,
     selected_word_range |-> selected_word_range, selecting |-> selecting,
     disabled |-> disabled, history |-> history, mode |-> mode,
     mask_pattern |-> mask_pattern, validate |-> validate,
     clean_on_escape |-> clean_on_escape, last_layout |-> last_layout,
     preferred_x_offset |-> preferred_x_offset, crashed |-> crashed, events |-> events]

\* The state a handler starts from: no event emitted yet.
Begin == [State EXCEPT !.events = <<>>]

Commit(r) ==
    /\ text' = r.text
    /\ selected_range' = r.selected_range
    /\ selection_reversed' = r.selection_reversed
    /\ marked_range' = r.marked_range
    /\ selected_word_range' = r.selected_word_range
    /\ selecting' = r.selecting
    /\ disabled' = r.disabled
    /\ history' = r.history
    /\ mode' = r.mode
    /\ mask_pattern' = r.mask_pattern
    /\ validate' = r.validate
    /\ clean_on_escape' = r.clean_on_escape
    /\ last_layout' = r.last_layout
    /\ preferred_x_offset' = r.preferred_x_offset
    /\ crashed' = r.crashed
    /\ events' = r.events

\* The handlers that the claims count as edits of the user.
EditOps == {"insert", "replace", "backspace", "delete", "indent", "outdent",
            "replace_text_in_range"}

TrackOff == [stage |-> "off", n |-> 0, k |-> 0, before |-> <<>>, after |-> <<>>,
             sel |-> <<0, 0>>, direct |-> FALSE, after_undo |-> "off",
             keys |-> <<>>, typed |-> <<>>, seen |-> {}]

\* The user is about to type `keys`, one character at a time.
TrackTyping(keys) == [TrackOff EXCEPT !.stage = "typing", !.keys = keys]

TrackIdle == [TrackOff EXCEPT !.stage = "idle", !.after_undo = "none"]

\* The values that the buffer has held are remembered, from `value` on.
TrackSeen(value) == [TrackOff EXCEPT !.stage = "seen", !.seen = {value}]

Emitted(r, e) == \E i \in 1..Len(r.events) : r.events[i] = e

\* How a handler that went from s to r ended.
Outcome(s, r) ==
    IF r.crashed THEN "panic"
    ELSE IF s.disabled THEN "disabled"
    ELSE IF Emitted(r, "Change") THEN "applied"
    ELSE "none"

\* The change that r recorded first opened a group of its own.
OpenedGroup(s, r) ==
    /\ Len(r.history.undos) > Len(s.history.undos)
    /\ r.history.undos[Len(s.history.undos) + 1].version > s.history.version

\* The run of edits, undos and redos that `track` follows: a run starts with
\* an accepted edit that opens an undo group, goes on with accepted edits
\* (n of them in all), then undos, then redos.  `before` is the buffer before
\* the run, `after` and `sel` the buffer and selection after its edits, and
\* `direct` says that the run is one call of replace_text_in_range.
TrackRun(op, s, r) ==
    LET accepted == op \in EditOps /\ Outcome(s, r) = "applied"
    IN  IF accepted
        THEN IF track.stage = "edits"
             THEN [track EXCEPT !.n = @ + 1, !.after = r.text, !.sel = r.selected_range,
                                !.direct = FALSE]
             ELSE IF OpenedGroup(s, r)
             THEN [track EXCEPT !.stage = "edits", !.n = 1, !.k = 0, !.before = s.text,
                                !.after = r.text, !.sel = r.selected_range,
                                !.direct = (op = "replace_text_in_range")]
             ELSE [TrackIdle EXCEPT !.after_undo = track.after_undo]
        ELSE IF op = "undo" /\ track.stage = "edits"
        THEN [track EXCEPT !.stage = "undos", !.k = 1]
        ELSE IF op = "undo" /\ track.stage = "undos" /\ track.k < track.n
        THEN [track EXCEPT !.k = @ + 1]
        ELSE IF op = "redo" /\ track.stage = "undos" /\ track.k = track.n
        THEN [track EXCEPT !.stage = "redos", !.k = 1]
        ELSE IF op = "redo" /\ track.stage = "redos" /\ track.k < track.n
        THEN [track EXCEPT !.k = @ + 1]
        ELSE [TrackIdle EXCEPT !.after_undo = track.after_undo]

\* after_undo: "undone" once an undo has taken a group off the undo stack,
\* "edited" once an edit has been accepted after that, "redone" when a redo
\* follows.
TrackAfterUndo(op, s, r) ==
    IF op = "undo" THEN (IF s.history.undos # <<>> THEN "undone" ELSE "none")
    ELSE IF op = "redo" THEN (IF track.after_undo = "edited" THEN "redone" ELSE "none")
    ELSE IF track.after_undo = "redone" THEN "none"
    ELSE IF op \in EditOps /\ Outcome(s, r) = "applied" /\ track.after_undo = "undone" THEN "edited"
    ELSE track.after_undo

Track(op, s, r) ==
    IF track.stage = "off" THEN track
    ELSE IF track.stage = "typing"
    THEN (IF op = "replace_text_in_range" /\ track.keys # <<>>
          THEN [track EXCEPT !.keys = Tail(@), !.typed = Append(@, Head(track.keys))]
          ELSE track)
    ELSE IF track.stage = "seen" THEN [track EXCEPT !.seen = @ \cup {r.text}]
    ELSE [TrackRun(op, s, r) EXCEPT !.after_undo = TrackAfterUndo(op, s, r)]

\* One handler runs: `op` names it, `tag` tells how it ended, `arg` is its
\* offset argument, r the state it leaves.  A panic ends the program.
DoTagged(op, tag, arg, r) ==
    /\ ~crashed
    /\ IF steps = None THEN TRUE ELSE steps[1] > 0
    /\ Commit(r)
    /\ steps' = IF steps = None THEN None ELSE <<steps[1] - 1>>
    /\ last' = [op |-> op, tag |-> tag, arg |-> arg]
    /\ track' = Track(op, Begin, r)
    /\ UNCHANGED <<conv, registry, focused, chat>>

Do(op, r) == DoTagged(op, Outcome(Begin, r), 0, r)

(***************************************************************************)
(* The inputs of the handlers.                                             *)
(***************************************************************************)
\* The offsets that callers pass: every offset up to MaxOffset, so that some
\* lie beyond the end of the buffer.
MaxOffset == 3

Offsets == 0..MaxOffset

\* The indices the line layout gives for a position of the mouse: those of
\* the characters, and ones beyond the end of the buffer.
MouseHits == {hit \in Offsets : hit > ByteLen(text) \/ IsCharBoundary(text, hit)}

\* The clock: whether the grouping interval has passed since the last
\* recorded change.  With nothing on the undo stack there is no change to
\* group with.
Elapsed == IF history.undos = <<>> THEN {TRUE} ELSE BOOLEAN

\* What the keyboard, the clipboard and the input method deliver.  An input
\* with a mask gets a digit and a letter, one with a validator a text that
\* passes and one that does not, a multi-line input a letter and a line
\* break, a plain one a letter and a character outside the BMP.
Keys ==
    IF mask_pattern # <<>> THEN {<<"5">>, <<"a">>}
    ELSE IF validate # "none" THEN {<<"a">>, <<"b">>}
    ELSE IF mode # "SingleLine" THEN {<<"a">>, <<"n">>}
    ELSE {<<"a">>, <<"m">>}

\* What set_value, replace and the clipboard are given.
Values ==
    IF mask_pattern # <<>> THEN {<<>>, <<"5", "5">>}
    ELSE IF validate # "none" THEN {<<>>, <<"a", "b">>}
    ELSE IF mode # "SingleLine" THEN {<<>>, <<"a", "n", "b">>}
    ELSE {<<>>, <<"a", "s", "m">>}

\* The UTF-16 ranges an input method passes to replace_text_in_range: None
\* for "the marked text or the selection", a caret, one unit, and a range that
\* runs to MaxOffset.
ImeRanges == {None, <<0, 0>>, <<0, 1>>, <<1, MaxOffset>>}

\* The ranges it passes when it marks text, and the selections it asks for
\* inside the marked text.
MarkRanges == {None, <<1, MaxOffset>>}

SubSelections == {None, <<1, 1>>}

(***************************************************************************)
(* The actions: one per handler of InputState.                             *)
(***************************************************************************)
Insert ==
    /\ \E txt \in Keys, elapsed \in Elapsed :
        LET r == insert(Begin, txt, elapsed)
        IN  DoTagged("insert", Outcome(Begin, r), [text |-> txt], r)

Replace ==
    /\ \E txt \in Values, elapsed \in Elapsed : Do("replace", replace(Begin, txt, elapsed))

SetValue ==
    /\ \E value \in Values : Do("set_value", set_value(Begin, value))

SetDisabled ==
    /\ \E d \in BOOLEAN : Do("set_disabled", set_disabled(Begin, d))

\* The element paints and leaves its line layout in last_layout.  Only a
\* multi-line input wraps its lines, when it is narrow.
Paint ==
    /\ \E wrapped \in (IF is_multi_line(Begin) THEN BOOLEAN ELSE {FALSE}) :
        Do("paint", [Begin EXCEPT !.last_layout = <<wrapped>>])

Left ==
    /\ Do("left", left(Begin))

Right ==
    /\ Do("right", right(Begin))

Up ==
    /\ Do("up", up(Begin))

Down ==
    /\ Do("down", down(Begin))

SelectLeft ==
    /\ Do("select_left", select_left(Begin))

SelectRight ==
    /\ Do("select_right", select_right(Begin))

SelectUp ==
    /\ Do("select_up", select_up(Begin))

SelectDown ==
    /\ Do("select_down", select_down(Begin))

SelectAll ==
    /\ Do("select_all", select_all(Begin))

Home ==
    /\ Do("home", home(Begin))

End ==
    /\ Do("end", end(Begin))

MoveToStart ==
    /\ Do("move_to_start", move_to_start(Begin))

MoveToEnd ==
    /\ Do("move_to_end", move_to_end(Begin))

MoveToPreviousWord ==
    /\ Do("move_to_previous_word", move_to_previous_word(Begin))

MoveToNextWord ==
    /\ Do("move_to_next_word", move_to_next_word(Begin))

SelectToStart ==
    /\ Do("select_to_start", select_to_start(Begin))

SelectToEnd ==
    /\ Do("select_to_end", select_to_end(Begin))

SelectToStartOfLine ==
    /\ Do("select_to_start_of_line", select_to_start_of_line(Begin))

SelectToEndOfLine ==
    /\ Do("select_to_end_of_line", select_to_end_of_line(Begin))

SelectToPreviousWord ==
    /\ Do("select_to_previous_word", select_to_previous_word(Begin))

SelectToNextWord ==
    /\ Do("select_to_next_word", select_to_next_word(Begin))

Backspace ==
    /\ \E elapsed \in Elapsed : Do("backspace", backspace(Begin, elapsed))

Delete ==
    /\ \E elapsed \in Elapsed : Do("delete", delete(Begin, elapsed))

DeleteToBeginningOfLine ==
    /\ \E elapsed \in Elapsed :
        Do("delete_to_beginning_of_line", delete_to_beginning_of_line(Begin, elapsed))

DeleteToEndOfLine ==
    /\ \E elapsed \in Elapsed : Do("delete_to_end_of_line", delete_to_end_of_line(Begin, elapsed))

DeletePreviousWord ==
    /\ \E elapsed \in Elapsed : Do("delete_previous_word", delete_previous_word(Begin, elapsed))

DeleteNextWord ==
    /\ \E elapsed \in Elapsed : Do("delete_next_word", delete_next_word(Begin, elapsed))

Enter ==
    /\ \E secondary \in BOOLEAN, elapsed \in Elapsed : Do("enter", enter(Begin, secondary, elapsed))

Indent ==
    /\ \E elapsed \in Elapsed : Do("indent", indent(Begin, elapsed))

Outdent ==
    /\ \E elapsed \in Elapsed : Do("outdent", outdent(Begin, elapsed))

Clean ==
    /\ \E elapsed \in Elapsed : Do("clean", clean(Begin, elapsed))

Escape ==
    /\ \E elapsed \in Elapsed : Do("escape", escape(Begin, elapsed))

OnMouseDown ==
    /\ \E hit \in MouseHits, double_click \in BOOLEAN, shift \in BOOLEAN :
        DoTagged("on_mouse_down", "none", hit, on_mouse_down(Begin, hit, double_click, shift))

OnMouseUp ==
    /\ Do("on_mouse_up", on_mouse_up(Begin))

OnDragMove ==
    /\ \E hit \in MouseHits : DoTagged("on_drag_move", "none", hit, on_drag_move(Begin, hit))

\* copy leaves the state alone, but it slices the buffer by the selection.
Copy ==
    /\ Do("copy", IF ~IsEmptyRange(selected_range) /\ text_for_range_utf8_panics(text, selected_range)
               THEN Panic(Begin) ELSE Begin)

Cut ==
    /\ \E elapsed \in Elapsed : Do("cut", cut(Begin, elapsed))

Paste ==
    /\ \E clipboard \in Values, elapsed \in Elapsed : Do("paste", paste(Begin, clipboard, elapsed))

Undo ==
    /\ Do("undo", undo(Begin))

Redo ==
    /\ Do("redo", redo(Begin))

OnBlur ==
    /\ Do("on_blur", on_blur(Begin))

UnmarkText ==
    /\ Do("unmark_text", unmark_text(Begin))

\* The pending text of an edit on `range_utf16` is not empty and the
\* validator or the mask refuses it.
Rejected(s, range_utf16, new_text) ==
    /\ ~s.disabled
    /\ ~pending_text_panics(s, resolve_range(s, range_utf16))
    /\ pending_text(s, resolve_range(s, range_utf16), new_text) # <<>>
    /\ ~is_valid_input(s, pending_text(s, resolve_range(s, range_utf16), new_text))

ReplaceTextInRange ==
    /\ \E range_utf16 \in ImeRanges, new_text \in Keys \cup {<<>>}, elapsed \in Elapsed :
        LET r == replace_text_in_range(Begin, range_utf16, new_text, elapsed)
        IN  DoTagged("replace_text_in_range",
                     IF Rejected(Begin, range_utf16, new_text) THEN "rejected"
                     ELSE Outcome(Begin, r),
                     [range |-> range_utf16, text |-> new_text, marked |-> marked_range], r)

ReplaceAndMarkTextInRange ==
    /\ \E range_utf16 \in MarkRanges, new_text \in Keys \cup {<<>>},
       new_selected_range_utf16 \in SubSelections, elapsed \in Elapsed :
        LET r == replace_and_mark_text_in_range(Begin, range_utf16, new_text,
                                                new_selected_range_utf16, elapsed)
        IN  DoTagged("replace_and_mark_text_in_range",
                     IF Rejected(Begin, range_utf16, new_text) THEN "rejected"
                     ELSE Outcome(Begin, r),
                     [range |-> range_utf16, text |-> new_text,
                      sel |-> new_selected_range_utf16,
                      on |-> resolve_range(Begin, range_utf16)], r)

\* A key press: the platform hands the next character the user types to
\* replace_text_in_range, with no range.
Type ==
    /\ track.stage = "typing"
    /\ track.keys # <<>>
    /\ \E elapsed \in Elapsed :
        LET r == replace_text_in_range(Begin, None, <<Head(track.keys)>>, elapsed)
        IN  DoTagged("replace_text_in_range",
                     IF Rejected(Begin, None, <<Head(track.keys)>>) THEN "rejected"
                     ELSE Outcome(Begin, r),
                     [range |-> None, text |-> <<Head(track.keys)>>, marked |-> marked_range], r)

\* move_to and select_to, called with any offset.  The tag of select_to is
\* "stale" when the call found the selection collapsed and the reversed flag
\* still set by an earlier selection.
MoveTo ==
    /\ \E offset \in Offsets : DoTagged("move_to", "none", offset, move_to(Begin, offset))

SelectTo ==
    /\ \E offset \in Offsets :
        DoTagged("select_to",
                 IF selection_reversed /\ IsEmptyRange(selected_range) THEN "stale" ELSE "none",
                 offset, select_to(Begin, offset))

\* select_word, called with any offset of the buffer on a character boundary.
SelectWord ==
    /\ \E offset \in 0..ByteLen(text) :
          /\ IsCharBoundary(text, offset)
          /\ DoTagged("select_word", "none", offset, select_word(Begin, offset))

\* One conversion of a byte offset on a character boundary to UTF-16 and back.
Convert ==
    /\ \E o \in 0..ByteLen(text) :
          /\ IsCharBoundary(text, o)
          /\ conv' = [offset |-> o, utf16 |-> offset_to_utf16(text, o),
                      back |-> offset_from_utf16(text, offset_to_utf16(text, o))]
    /\ UNCHANGED <<input_vars, steps, last, track, registry, focused, chat>>

\* One call of next_boundary and one of previous_boundary with a byte offset
\* of the buffer.
Boundary ==
    /\ \E o \in 0..ByteLen(text) :
          conv' = [offset |-> o, next |-> next_boundary(text, o),
                   previous |-> previous_boundary(text, o)]
    /\ UNCHANGED <<input_vars, steps, last, track, registry, focused, chat>>

(***************************************************************************)
(* The handlers of the focus registry.  Elements are registered under the   *)
(* ids of ElementIds with the handles of FocusHandles; a handle that        *)
(* cx.focus_handle() creates is one that no registered element has and that *)
(* is not focused.                                                          *)
(***************************************************************************)
ElementIds == {"p", "q", "r"}

FocusHandles == {"g", "h"}

\* The index that register_focusable_with_index is given: up to MaxIndex.
MaxIndex == 2

\* The handles that cx.focus_handle() may return.
NewHandles ==
    {handle \in FocusHandles :
        /\ focused # <<handle>>
        /\ \A id \in DOMAIN registry.handles : registry.handles[id] # handle}

\* A handler of the registry has run with an id and, where it takes or
\* creates one, a handle: the window keeps its focus, the input and the chat
\* are untouched.
DoRegistry(op, element_id, handle, reg) ==
    /\ registry' = reg
    /\ last' = [op |-> op, tag |-> "none", arg |-> [id |-> element_id, handle |-> handle]]
    /\ UNCHANGED <<input_vars, steps, track, conv, focused, chat>>

\* A handler that moves the focus of the window has run.
DoFocus(op, window_focus) ==
    /\ focused' = window_focus
    /\ last' = [op |-> op, tag |-> "none", arg |-> 0]
    /\ UNCHANGED <<input_vars, steps, track, conv, registry, chat>>

RegisterButtonHandler ==
    /\ \E id \in ElementIds :
          DoRegistry("register_button_handler", id, None, register_button_handler(registry, id))

RemoveFocus ==
    /\ \E id \in ElementIds : DoRegistry("remove_focus", id, None, remove_focus(registry, id))

RegisterFocusable ==
    /\ \E id \in ElementIds, handle \in FocusHandles :
          DoRegistry("register_focusable", id, handle, register_focusable(registry, id, handle))

RegisterFocusableWithPriority ==
    /\ \E id \in ElementIds, handle \in FocusHandles :
          DoRegistry("register_focusable_with_priority", id, handle,
                     register_focusable_with_priority(registry, id, handle))

RegisterFocusableWithIndex ==
    /\ \E id \in ElementIds, handle \in FocusHandles, priority_index \in 0..MaxIndex :
          DoRegistry("register_focusable_with_index", id, handle,
                     register_focusable_with_index(registry, id, handle, priority_index))

GetOrCreateFocusHandle ==
    /\ \E id \in ElementIds, handle \in NewHandles :
          DoRegistry("get_or_create_focus_handle", id, handle,
                     get_or_create_focus_handle(registry, id, handle))

GetOrCreateFocusHandleWithPriority ==
    /\ \E id \in ElementIds, handle \in NewHandles :
          DoRegistry("get_or_create_focus_handle_with_priority", id, handle,
                     get_or_create_focus_handle_with_priority(registry, id, handle))

GetOrCreateFocusHandleWithIndex ==
    /\ \E id \in ElementIds, handle \in NewHandles, priority_index \in 0..MaxIndex :
          DoRegistry("get_or_create_focus_handle_with_index", id, handle,
                     get_or_create_focus_handle_with_index(registry, id, handle, priority_index))

FocusNext ==
    /\ DoFocus("focus_next", focus_next(registry, focused))

FocusPrevious ==
    /\ DoFocus("focus_previous", focus_previous(registry, focused))

\* unfocus_all: window.blur().
UnfocusAll ==
    /\ DoFocus("unfocus_all", None)

\* window.focus(&handle): a click on an element, or a handler, gives the focus
\* to a handle.
WindowFocus ==
    /\ \E handle \in FocusHandles : DoFocus("focus", <<handle>>)

(***************************************************************************)
(* Construction.  InputState::new followed by the builders: the mode       *)
(* (multi_line, auto_grow, code_editor), mask_pattern, validate,           *)
(* default_value, disabled and clean_on_escape.  The cursor starts at 0,   *)
(* nothing is marked, the history is empty and nothing has been painted.   *)
(* The focus registry and the chat are as focus::init and ChatState::new    *)
(* leave them, and no element has the focus.                                *)
(***************************************************************************)
Config(m, pattern, v, value, d, c) ==
    [mode |-> m, mask_pattern |-> pattern, validate |-> v, text |-> value,
     disabled |-> d, clean_on_escape |-> c]

new(config, budget, tracking) ==
    /\ text = config.text
    /\ selected_range = <<0, 0>>
    /\ selection_reversed = FALSE
    /\ marked_range = None
    /\ selected_word_range = None
    /\ selecting = FALSE
    /\ disabled = config.disabled
    /\ history = HistoryNew
    /\ mode = config.mode
    /\ mask_pattern = config.mask_pattern
    /\ validate = config.validate
    /\ clean_on_escape = config.clean_on_escape
    /\ last_layout = None
    /\ preferred_x_offset = None
    /\ crashed = FALSE
    /\ events = <<>>
    /\ steps = budget
    /\ last = [op |-> "new", tag |-> "none", arg |-> 0]
    /\ track = tracking
    /\ conv = None
    /\ registry = FocusRegistryNew
    /\ focused = None
    /\ chat = ChatStateNew

\* The mask "(99)".
PhoneMask == <<"(", "9", "9", ")">>

\* The inputs that the applications of the repository build, and their like:
\* plain, disabled, masked, validated, multi-line, auto-grow and code editor.
Configs ==
    {Config("SingleLine", <<>>, "none", value, d, FALSE) :
         value \in {<<>>, <<"a", "b">>}, d \in BOOLEAN}
    \cup {Config("SingleLine", PhoneMask, "none", <<>>, FALSE, FALSE),
          Config("SingleLine", <<>>, "no_b", <<"a">>, FALSE, TRUE),
          Config("MultiLine", <<>>, "none", <<"n", "a">>, FALSE, FALSE),
          Config("MultiLine", <<>>, "none", <<"a", "n", "b">>, FALSE, FALSE),
          Config("AutoGrow", <<>>, "none", <<"a">>, FALSE, FALSE),
          Config("CodeEditor", <<>>, "none", <<"s", "a", "n", "b">>, FALSE, FALSE)}

Init == \E config \in Configs : new(config, <<MaxSteps>>, TrackOff)

Next ==
    \/ Insert \/ Replace \/ SetValue \/ SetDisabled \/ Paint
    \/ Left \/ Right \/ Up \/ Down
    \/ SelectLeft \/ SelectRight \/ SelectUp \/ SelectDown \/ SelectAll
    \/ Home \/ End \/ MoveToStart \/ MoveToEnd \/ MoveToPreviousWord \/ MoveToNextWord
    \/ SelectToStart \/ SelectToEnd \/ SelectToStartOfLine \/ SelectToEndOfLine
    \/ SelectToPreviousWord \/ SelectToNextWord
    \/ Backspace \/ Delete \/ DeleteToBeginningOfLine \/ DeleteToEndOfLine
    \/ DeletePreviousWord \/ DeleteNextWord
    \/ Enter \/ Indent \/ Outdent \/ Clean \/ Escape
    \/ OnMouseDown \/ OnMouseUp \/ OnDragMove
    \/ Copy \/ Cut \/ Paste \/ Undo \/ Redo \/ OnBlur \/ UnmarkText
    \/ ReplaceTextInRange \/ ReplaceAndMarkTextInRange

Spec == Init /\ [][Next]_vars


(***************************************************************************)
(* Offset conversion on its own: every buffer of up to MaxConvLen           *)
(* characters of one, two, three and four bytes, and every conversion of a  *)
(* byte offset on a character boundary.                                    *)
(***************************************************************************)
ConvChars == {"a", "e", "j", "m"}

InitConv ==
    \E value \in SeqsUpTo(ConvChars, MaxConvLen) :
        new(Config("SingleLine", <<>>, "none", value, FALSE, FALSE), None, TrackOff)

NextConv == Convert

SpecConv == InitConv /\ [][NextConv]_vars

\* C9: for every buffer of characters of 1 to 4 bytes (1 or 2 UTF-16 units)
\* and every byte offset o on a character boundary in [0, len],
\* offset_from_utf16(offset_to_utf16(o)) = o.
C9_RoundTrip == conv # None => conv.back = conv.offset

\* A conversion behind a character outside the BMP, where the UTF-16 offset
\* and the byte offset differ, in a buffer that mixes the widths.
C9_Witness ==
    /\ conv # None
    /\ \E i \in 1..Len(text) : text[i] = "m" /\ CharStart(text, i) < conv.offset
    /\ \E i \in 1..Len(text) : text[i] = "j"
    /\ conv.utf16 # conv.offset
    /\ conv.back = conv.offset


(***************************************************************************)
(* Cursor movement on its own: move_to and select_to called with every      *)
(* offset up to MaxOffset on buffers shorter than that, and the mouse, in   *)
(* any order, any number of times.                                         *)
(***************************************************************************)
SelConfigs ==
    {Config("SingleLine", <<>>, "none", value, FALSE, FALSE) :
         value \in {<<>>, <<"a">>, <<"a", "b">>, <<"e">>, <<"a", "s", "b">>,
                    <<"(", "_", "5">>, <<"j", "e", "s">>}}
    \cup {Config("MultiLine", <<>>, "none", <<"a", "n">>, FALSE, FALSE)}

InitSel == \E config \in SelConfigs : new(config, None, TrackOff)

NextSel == MoveTo \/ SelectTo \/ SelectWord \/ OnMouseDown \/ OnDragMove \/ OnMouseUp \/ Paint

SpecSel == InitSel /\ [][NextSel]_vars

\* C2: after any sequence of move_to and select_to calls with arbitrary
\* offsets, offsets beyond the end of the text included, the selection
\* satisfies start <= end and lies within [0, text.len()]; an offset beyond
\* the end is clamped to the end, not rejected.
C2_SelectionClamped ==
    /\ selected_range[1] <= selected_range[2]
    /\ selected_range[2] <= ByteLen(text)
    /\ last.op = "move_to" =>
           selected_range = <<Min(last.arg, ByteLen(text)), Min(last.arg, ByteLen(text))>>
    /\ last.op = "select_to" /\ last.arg > ByteLen(text) => selected_range[2] = ByteLen(text)

\* select_to with an offset beyond the end has stretched a selection to the
\* end of a buffer that is not empty.
C2_Witness ==
    /\ last.op = "select_to"
    /\ last.arg > ByteLen(text)
    /\ selected_range[1] < selected_range[2]
    /\ selected_range[2] = ByteLen(text)


(***************************************************************************)
(* Properties of the whole input (Spec).                                   *)
(***************************************************************************)
\* C1: after any sequence of operations, an input-method
\* replace_and_mark_text_in_range with an arbitrary sub-selection and rejected
\* edits included, selected_range.start <= selected_range.end <= text.len().
C1_SelectionWithinText ==
    crashed \/ (selected_range[1] <= selected_range[2] /\ selected_range[2] <= ByteLen(text))

\* The operations that C4 names.
MutatingOps == {"insert", "replace", "set_value", "backspace", "delete", "cut", "paste",
                "indent", "outdent", "undo", "redo", "replace_text_in_range",
                "replace_and_mark_text_in_range"}

\* C4: while the input is disabled, every mutating operation leaves text,
\* selected_range, marked_range and the undo and redo stacks as they were.
C4_DisabledIsNoOp ==
    [][(disabled /\ last'.op \in MutatingOps) =>
           /\ UNCHANGED <<text, selected_range, marked_range>>
           /\ history'.undos = history.undos
           /\ history'.redos = history.redos]_vars

\* The commands that C10 names.
LineAndWordDeletes == {"delete_to_beginning_of_line", "delete_to_end_of_line",
                       "delete_previous_word", "delete_next_word"}

\* C10: no handler panics on a slice: the ranges that
\* delete_to_beginning_of_line, delete_to_end_of_line, delete_previous_word
\* and delete_next_word hand on satisfy start <= end <= text.len().
C10_DeletesDoNotPanic == ~(crashed /\ last.op \in LineAndWordDeletes)


(***************************************************************************)
(* Edits through the input handler, with undo and redo: inputs with a       *)
(* mask, inputs with a validator (one whose default value the validator     *)
(* would refuse) and a plain one; replace_text_in_range and                 *)
(* replace_and_mark_text_in_range with every range, text and clock, undo    *)
(* and redo, for MaxEditSteps handlers.                                     *)
(***************************************************************************)
MaxEditSteps == 2

EditConfigs ==
    {Config("SingleLine", PhoneMask, "none", <<>>, FALSE, FALSE),
     Config("SingleLine", PhoneMask, "none", <<"(", "5">>, FALSE, FALSE),
     Config("SingleLine", <<>>, "no_b", <<"a">>, FALSE, FALSE),
     Config("SingleLine", <<>>, "no_b", <<"a", "b">>, FALSE, FALSE),
     Config("SingleLine", <<>>, "none", <<"a", "m">>, FALSE, FALSE)}

InitEdit == \E config \in EditConfigs : new(config, <<MaxEditSteps>>, TrackIdle)

NextEdit == ReplaceTextInRange \/ ReplaceAndMarkTextInRange \/ Undo \/ Redo

SpecEdit == InitEdit /\ [][NextEdit]_vars

\* C3: replace_text_in_range is all-or-nothing: when the validator or the mask
\* rejects the (non-empty) pending text, text, selected_range, marked_range
\* and the history are unchanged and no Change event is emitted.
C3_RejectedEditChangesNothing ==
    [][(last'.op = "replace_text_in_range" /\ last'.tag = "rejected") =>
           /\ UNCHANGED <<text, selected_range, marked_range, history>>
           /\ \A i \in 1..Len(events') : events'[i] # "Change"]_vars

\* A rejected replace_text_in_range on an input that has marked text and a
\* recorded change.
C3_Witness ==
    /\ last.op = "replace_text_in_range"
    /\ last.tag = "rejected"
    /\ marked_range # None
    /\ history.undos # <<>>

\* C5: after an accepted replace_text_in_range (any range and text, with or
\* without a mask) an immediately following undo restores the text that was
\* there before the edit, and a following redo the text after the edit.
C5_UndoRedoRestoresText ==
    /\ (track.direct /\ track.stage = "undos") => text = track.before
    /\ (track.direct /\ track.stage = "redos") => text = track.after


(***************************************************************************)
(* Runs of edits followed by undos and redos: a plain and a multi-line      *)
(* input, the editing commands, select_all, undo and redo, for              *)
(* MaxHistSteps handlers.                                                  *)
(***************************************************************************)
MaxHistSteps == 4

HistConfigs ==
    {Config("SingleLine", <<>>, "none", <<"a", "m">>, FALSE, FALSE),
     Config("MultiLine", <<>>, "none", <<"a">>, FALSE, FALSE)}

InitHist == \E config \in HistConfigs : new(config, <<MaxHistSteps>>, TrackIdle)

NextHist ==
    \/ Insert \/ Replace \/ Backspace \/ Delete \/ Indent \/ Outdent
    \/ SelectAll \/ Undo \/ Redo

SpecHist == InitHist /\ [][NextHist]_vars

\* C6: for any sequence of edits E1..En (insert, replace, backspace, delete,
\* indent, outdent), undoing n times and then redoing n times restores the
\* exact text and the selected_range that the edits left.
C6_UndoRedoRoundTrip ==
    (track.stage = "redos" /\ track.k = track.n) =>
        (text = track.after /\ selected_range = track.sel)


(***************************************************************************)
(* Undo, redo and set_value among edits: typing, backspace, set_value,      *)
(* undo and redo on a plain and on a validated input, for MaxUndoSteps      *)
(* handlers.                                                               *)
(***************************************************************************)
MaxUndoSteps == 4

UndoConfigs ==
    {Config("SingleLine", <<>>, "none", <<"a", "m">>, FALSE, FALSE),
     Config("SingleLine", <<>>, "no_b", <<>>, FALSE, FALSE)}

InitUndo == \E config \in UndoConfigs : new(config, <<MaxUndoSteps>>, TrackIdle)

NextUndo == Insert \/ Backspace \/ SetValue \/ Undo \/ Redo

SpecUndo == InitUndo /\ [][NextUndo]_vars

HistoryEntries(h) == Len(h.undos) + Len(h.redos)

\* C8: undo, redo and set_value record no history entry of their own
\* (push_history returns while history.ignore is set), and history.ignore is
\* false again when they are done, so that the next user edit is recorded.
C8_ReplayIsNotRecorded ==
    /\ [](crashed \/ ~history.ignore)
    /\ [][last'.op \in {"undo", "redo"} =>
              HistoryEntries(history') = HistoryEntries(history)]_vars
    /\ [][last'.op = "set_value" => history' = history]_vars
    /\ [][(last.op \in {"undo", "redo", "set_value"}
              /\ last'.op \in {"insert", "backspace"} /\ last'.tag = "applied") =>
              Len(history'.undos) = Len(history.undos) + 1]_vars

\* An edit recorded right after an undo that replayed a change.
C8_Witness ==
    /\ last.op = "insert"
    /\ last.tag = "applied"
    /\ track.after_undo = "edited"
    /\ history.undos # <<>>
    /\ ~history.ignore


(***************************************************************************)
(* Input-method composition (SpecEdit): replace_and_mark_text_in_range      *)
(* marks the composed text, replace_text_in_range(None, c) commits it.      *)
(***************************************************************************)
\* The call that last ran marked a non-empty text and asked for no selection
\* of its own inside it.
Composing ==
    /\ last.op = "replace_and_mark_text_in_range"
    /\ last.tag = "applied"
    /\ last.arg.text # <<>>
    /\ last.arg.sel = None

\* The marked bytes are replaced by c, nothing is marked any more and the
\* caret stands behind c, in bytes.
Committed(c) ==
    /\ text' = Slice(text, <<0, marked_range[1]>>) \o c
                   \o Slice(text, <<marked_range[2], ByteLen(text)>>)
    /\ marked_range' = None
    /\ selected_range' = <<marked_range[1] + ByteLen(c), marked_range[1] + ByteLen(c)>>

C12_EmptyTextUpOnlyOnUp ==
    [][(\E i \in 1..Len(events') : events'[i] = "EmptyTextUp")
           <=> (last'.op = "up" /\ text = <<>>)]_vars

\* up has run on the empty buffer of a multi-line input and emitted the event.
C12_Witness ==
    /\ last.op = "up"
    /\ text = <<>>
    /\ mode # "SingleLine"
    /\ events = <<"EmptyTextUp">>


\* C13: after set_value(v) on an enabled input, in any mode (SingleLine,
\* MultiLine, AutoGrow, CodeEditor), selected_range is 0..0.
C13_SetValueResetsSelection ==
    (last.op = "set_value" /\ ~disabled /\ ~crashed) => selected_range = <<0, 0>>


\* C14: an accepted insert(t) with the cursor at byte offset c of the text
\* (old[0..c] is a slice of it), on an input without a mask, yields
\* text = old[0..c] + t + old[c..] and the selection collapsed at
\* c + byte_len(t).
C14_InsertAtCursor ==
    [][(/\ last'.op = "insert"
        /\ last'.tag = "applied"
        /\ mask_pattern = <<>>
        /\ SliceOk(text, <<0, cursor_offset(State)>>)) =>
           LET c == cursor_offset(State)
               t == last'.arg.text
           IN  /\ text' = Slice(text, <<0, c>>) \o t \o Slice(text, <<c, ByteLen(text)>>)
               /\ selected_range' = <<c + ByteLen(t), c + ByteLen(t)>>]_vars

\* A character of four bytes has been inserted between the two characters of
\* "ab": the caret stands at byte 5.
C14_Witness ==
    /\ last.op = "insert"
    /\ last.tag = "applied"
    /\ last.arg.text = <<"m">>
    /\ text = <<"a", "m", "b">>
    /\ selected_range = <<5, 5>>


(***************************************************************************)
(* Typing into an input with a mask (SpecMask): the masks "(999)999-999"    *)
(* and "(999)999-9999" on an empty input, and a user who types one of a few *)
(* texts, one character at a time, at any pace.                             *)
(***************************************************************************)
\* "(999)999-999": nine placeholders.
PhonePattern == <<"(", "9", "9", "9", ")", "9", "9", "9", "-", "9", "9", "9">>

\* "(999)999-9999": ten placeholders.
LongPhonePattern == PhonePattern \o <<"9">>

\* "5551234567".
PhoneDigits == <<"5", "5", "5", "1", "2", "3", "4", "5", "6", "7">>

\* What the user types: the phone number, the number as it is written, a
\* number with a letter in it, and one with dots.
TypedTexts ==
    {PhoneDigits,
     <<"(", "5", "5", "5", ")", "1", "2", "3", "-", "4", "5", "6", "7">>,
     <<"5", "5", "a", "5", "1">>,
     <<"5", ".", "5", "-", "1", "2", "3", "4">>}

InitMask ==
    \E pattern \in {PhonePattern, LongPhonePattern}, keys \in TypedTexts :
        new(Config("SingleLine", pattern, "none", <<>>, FALSE, FALSE), None, TrackTyping(keys))

NextMask == Type

SpecMask == InitMask /\ [][NextMask]_vars

\* The ten characters of "5551234567" have been typed.
PhoneTyped == track.stage = "typing" /\ track.typed = PhoneDigits

C16_MoveToClearsReversed ==
    last.op = "move_to" =>
        /\ selected_range = <<Min(last.arg, ByteLen(text)), Min(last.arg, ByteLen(text))>>
        /\ ~selection_reversed


\* The end of the selection that select_to leaves where it is.
Anchor == IF selection_reversed THEN selected_range[2] ELSE selected_range[1]

\* C17: with no marked range and no remembered word range, select_to(o) keeps
\* the anchor and moves the active end to o' = clamp(o, 0, text.len()):
\* afterwards selected_range = [min(anchor, o'), max(anchor, o')) and
\* cursor_offset() = o', whatever selection_reversed was before the call.
C17_SelectToKeepsAnchor ==
    [][(last'.op = "select_to" /\ marked_range = None /\ selected_word_range = None) =>
           LET o == Min(last'.arg, ByteLen(text))
           IN  /\ selected_range' = <<Min(Anchor, o), Max(Anchor, o)>>
               /\ cursor_offset(State)' = o]_vars

\* select_to has selected forwards from a collapsed selection whose reversed
\* flag an earlier selection had left set.
C17_Witness ==
    /\ last.op = "select_to"
    /\ last.tag = "stale"
    /\ selected_word_range = None
    /\ selected_range[1] < selected_range[2]
    /\ ~selection_reversed
    /\ cursor_offset(State) = last.arg


(***************************************************************************)
(* Word selection (SpecSel).                                               *)
(***************************************************************************)
\* The characters of t from the one that starts at byte `from` up to, not
\* including, the one that starts at byte `to` are all word characters.
AllWord(t, from, to) ==
    \A i \in 1..Len(t) :
        (from <= CharStart(t, i) /\ CharStart(t, i) < to) => is_word(t[i])

\* The maximal run of word characters around byte offset o.
WordRun(t, o) ==
    LET bounds == {b \in 0..ByteLen(t) : IsCharBoundary(t, b)}
    IN  <<SetMin({b \in bounds : b <= o /\ AllWord(t, b, o)}),
          SetMax({b \in bounds : b >= o /\ AllWord(t, o, b)})>>

\* C18: select_word(offset), for an offset on a character boundary, sets
\* selected_range and selected_word_range to the maximal run [s, e) of word
\* characters (alphanumeric or '_') with s <= offset <= e; when no word
\* character is adjacent to the offset (s = e) it leaves both as they were.
C18_SelectWordMaximalRun ==
    [][last'.op = "select_word" =>
           LET run == WordRun(text, last'.arg)
           IN  IF run[1] = run[2]
               THEN UNCHANGED <<selected_range, selected_word_range>>
               ELSE selected_range' = run /\ selected_word_range' = run]_vars

\* select_word at the end of "あé ", two letters of three and two bytes
\* before a space, has selected the five bytes of the two letters.
C18_Witness ==
    /\ last.op = "select_word"
    /\ last.arg = 5
    /\ text = <<"j", "e", "s">>
    /\ selected_range = <<0, 5>>
    /\ selected_word_range = <<0, 5>>

\* A call of on_drag_move that gets as far as select_to.
DragSelects == text # <<>> /\ last_layout # None /\ selecting

\* C19: between a select_word that selected the word range W and the next
\* on_mouse_up, the selection contains W after every select_to (a drag to any
\* offset); on_mouse_up clears selected_word_range and the selecting flag.
C19_DragKeepsWord ==
    [][/\ (/\ selected_word_range # None
           /\ \/ last'.op = "select_to"
              \/ last'.op = "on_drag_move" /\ DragSelects) =>
              /\ selected_word_range' = selected_word_range
              /\ selected_range'[1] <= selected_word_range[1]
              /\ selected_range'[2] >= selected_word_range[2]
       /\ last'.op = "on_mouse_up" => (selected_word_range' = None /\ ~selecting')]_vars

\* After a double click on the first word of "a b" the mouse has been dragged
\* to offset 0: the word is still selected.
C19_Witness ==
    /\ last.op = "on_drag_move"
    /\ last.arg = 0
    /\ selecting
    /\ last_layout # None
    /\ text = <<"a", "s", "b">>
    /\ selected_word_range = <<0, 1>>
    /\ selected_range = <<0, 1>>


(***************************************************************************)
(* Lines (SpecLines): inputs of every mode whose text has a line of three   *)
(* characters, painted with and without wrapping, and the keys that move    *)
(* the cursor, in any order, any number of times.                           *)
(***************************************************************************)
LineConfigs ==
    {Config(m, <<>>, "none", <<"a", "b", "a", "n", "b">>, FALSE, FALSE) :
         m \in {"MultiLine", "AutoGrow", "CodeEditor"}}
    \cup {Config("SingleLine", <<>>, "none", <<"a", "b", "a">>, FALSE, FALSE)}

InitLines == \E config \in LineConfigs : new(config, None, TrackOff)

NextLines == Paint \/ Left \/ Right \/ Up \/ Down \/ Home \/ End

SpecLines == InitLines /\ [][NextLines]_vars

\* The byte offsets at which the visual line of the cursor starts and ends,
\* in the layout of the last paint.
VisualLine ==
    LET lines == SplitLines(text)
        lp    == line_and_position_for_offset(cursor_offset(State), lines, last_layout)
        line  == lines[lp.line_index + 1]
        base  == prev_lines_offset(lines, lp.line_index)
    IN  <<base + CharStart(line, sub_line_start(line, last_layout, lp.sub_line_index) + 1),
          base + CharStart(line, sub_line_end(line, last_layout, lp.sub_line_index) + 1)>>

\* C20: in the multi-line modes (MultiLine, AutoGrow, CodeEditor) home and end
\* move the cursor to the start and the end of the current visual line: they
\* stop at the soft wraps of a wrapped logical line; in SingleLine mode they
\* move to 0 and text.len().
C20_HomeEndOnVisualLine ==
    [][/\ (last'.op = "home" /\ is_single_line(State)) => selected_range' = <<0, 0>>
       /\ (last'.op = "end" /\ is_single_line(State)) =>
              selected_range' = <<ByteLen(text), ByteLen(text)>>
       /\ (last'.op = "home" /\ is_multi_line(State) /\ last_layout # None) =>
              selected_range' = <<VisualLine[1], VisualLine[1]>>
       /\ (last'.op = "end" /\ is_multi_line(State) /\ last_layout # None) =>
              selected_range' = <<VisualLine[2], VisualLine[2]>>]_vars


(***************************************************************************)
(* Every handler on plain inputs (SpecKeys): an empty and a filled          *)
(* single-line input and an empty and a filled multi-line input, none with  *)
(* a mask or a validator, and every handler of Next, for MaxKeySteps        *)
(* handlers.                                                                *)
(***************************************************************************)
MaxKeySteps == 2

KeyConfigs ==
    {Config("SingleLine", <<>>, "none", value, FALSE, FALSE) : value \in {<<>>, <<"a", "b">>}}
    \cup {Config("MultiLine", <<>>, "none", value, FALSE, FALSE) : value \in {<<>>, <<"a", "n">>}}

InitKeys == \E config \in KeyConfigs : new(config, <<MaxKeySteps>>, TrackOff)

SpecKeys == InitKeys /\ [][Next]_vars


(***************************************************************************)
(* The preferred column of vertical movement (SpecLines).                   *)
(***************************************************************************)
\* The x-coordinate at which a vertical move made in this state aims
\* (move_vertical's current_x): the preferred column, or the column of the
\* cursor when none is remembered.
TargetX ==
    IF preferred_x_offset # None THEN preferred_x_offset[1]
    ELSE line_and_position_for_offset(cursor_offset(State), SplitLines(text), last_layout).pos[1]

\* The cursor is on the first visual line of the text: up hits the top edge.
OnTopLine ==
    LET lp == line_and_position_for_offset(cursor_offset(State), SplitLines(text), last_layout)
    IN  lp.line_index = 0 /\ lp.sub_line_index = 0

\* C21: in a run of up and down with an empty selection on a painted
\* multi-line input, a vertical move that does not hit the top edge leaves
\* preferred_x_offset as it was, and the next vertical move aims at the same
\* x-coordinate as this one, also when no preferred column has been set yet.
C21_VerticalRunKeepsColumn ==
    [][(/\ last'.op \in {"up", "down"}
        /\ is_multi_line(State)
        /\ last_layout # None
        /\ IsEmptyRange(selected_range)
        /\ ~(last'.op = "up" /\ OnTopLine)) =>
           /\ preferred_x_offset' = preferred_x_offset
           /\ TargetX' = TargetX]_vars


(***************************************************************************)
(* The caret after an edit under a mask (SpecCaret): the mask "(99)9",      *)
(* which has a literal between its placeholders, on an empty input and on   *)
(* one that holds "(55"; the caret is moved with left and right and the     *)
(* input handler replaces any range, for MaxCaretSteps handlers.            *)
(***************************************************************************)
MaxCaretSteps == 3

\* The mask "(99)9".
CaretMask == <<"(", "9", "9", ")", "9">>

CaretConfigs ==
    {Config("SingleLine", CaretMask, "none", value, FALSE, FALSE) :
         value \in {<<>>, <<"(", "5", "5">>}}

InitCaret == \E config \in CaretConfigs : new(config, <<MaxCaretSteps>>, TrackOff)

NextCaret == ReplaceTextInRange \/ Left \/ Right

SpecCaret == InitCaret /\ [][NextCaret]_vars

RECURSIVE masked_end_loop(_, _, _, _, _)
\* The walk of mask over txt, cut off once the first p characters of txt have
\* been placed: the number of characters the mask has written by then, the
\* literals it wrote in front of and between those characters included.
masked_end_loop(pattern, k, txt, i, p) ==
    IF i > p \/ k > Len(pattern) \/ i > Len(txt) THEN 0
    ELSE IF IsLiteralToken(pattern[k])
         THEN 1 + masked_end_loop(pattern, k + 1, txt,
                                  IF txt[i] = pattern[k] THEN i + 1 ELSE i, p)
         ELSE IF token_is_match(pattern[k], txt[i])
              THEN 1 + masked_end_loop(pattern, k + 1, txt, i + 1, p)
              ELSE 0

\* The place in mask(txt) directly behind the first p characters of txt.
MaskedEnd(pattern, txt, p) ==
    IF pattern = <<>> THEN p ELSE masked_end_loop(pattern, 1, txt, 1, p)

\* C22: after an accepted replace_text_in_range(r, new_text) with new_text not
\* empty, under a mask (the texts of a masked input hold characters of one
\* byte), the caret stands directly behind the typed content in the masked
\* text: behind the literals that the mask has put in front of the typed
\* characters, and in front of those it has put behind them.
C22_CaretBehindTyped ==
    [][(/\ last'.op = "replace_text_in_range"
        /\ last'.tag = "applied"
        /\ last'.arg.text # <<>>
        /\ mask_pattern # <<>>) =>
           LET range   == resolve_range(State, last'.arg.range)
               pending == pending_text(State, range, last'.arg.text)
               caret   == MaskedEnd(mask_pattern, pending, range[1] + Len(last'.arg.text))
           IN  selected_range' = <<caret, caret>>]_vars


(***************************************************************************)
(* Grapheme boundaries on their own (SpecBound): every buffer of up to      *)
(* MaxConvLen characters among a letter, a combining mark and an emoji, and *)
(* next_boundary and previous_boundary called with every byte offset.       *)
(***************************************************************************)
BoundChars == {"a", "c", "m"}

InitBound ==
    \E value \in SeqsUpTo(BoundChars, MaxConvLen) :
        new(Config("SingleLine", <<>>, "none", value, FALSE, FALSE), None, TrackOff)

NextBound == Boundary

SpecBound == InitBound /\ [][NextBound]_vars

\* The grapheme-cluster boundaries of t: the starts of its clusters and its end.
GraphemeBoundaries(t) == grapheme_indices(t) \cup {ByteLen(t)}

\* C23: for a grapheme boundary o < text.len(), next_boundary(o) is the least
\* grapheme boundary greater than o, and next_boundary(text.len()) is
\* text.len(); for a grapheme boundary o > 0, previous_boundary(o) is a
\* grapheme boundary less than o (the greatest), and previous_boundary(0) is 0.
C23_BoundariesAdvance ==
    (conv # None /\ conv.offset \in GraphemeBoundaries(text)) =>
        /\ conv.offset < ByteLen(text) =>
               /\ conv.next \in GraphemeBoundaries(text)
               /\ conv.next > conv.offset
               /\ \A b \in GraphemeBoundaries(text) : b > conv.offset => conv.next <= b
        /\ conv.offset = ByteLen(text) => conv.next = ByteLen(text)
        /\ conv.offset > 0 =>
               /\ conv.previous \in GraphemeBoundaries(text)
               /\ conv.previous < conv.offset
               /\ \A b \in GraphemeBoundaries(text) : b < conv.offset => b <= conv.previous
        /\ conv.offset = 0 => conv.previous = 0

\* The boundaries around a letter that carries a combining mark, between an
\* emoji and a letter: from byte 4 the next boundary is byte 7, behind the
\* mark, and from byte 7 the previous one is byte 4.
C23_Witness ==
    /\ conv # None
    /\ text = <<"m", "a", "c">>
    /\ conv.offset = 4
    /\ conv.next = 7
    /\ conv.previous = 0


(***************************************************************************)
(* The cursor on characters of several bytes (SpecCursor): a multi-line     *)
(* input whose second line starts with a character of three bytes and a     *)
(* single-line input that ends with one of four, painted with and without   *)
(* wrapping, and the handlers that move the cursor or the selection, in any *)
(* order, any number of times.                                              *)
(***************************************************************************)
CursorConfigs ==
    {Config("MultiLine", <<>>, "none", <<"a", "n", "j", "a">>, FALSE, FALSE),
     Config("SingleLine", <<>>, "none", <<"a", "m">>, FALSE, FALSE)}

InitCursor == \E config \in CursorConfigs : new(config, None, TrackOff)

NextCursor ==
    \/ Paint \/ Left \/ Right \/ Up \/ Down \/ Home \/ End \/ OnMouseDown
    \/ SelectLeft \/ SelectRight \/ SelectUp \/ SelectDown \/ SelectAll
    \/ SelectToStart \/ SelectToEnd \/ SelectToStartOfLine \/ SelectToEndOfLine
    \/ SelectToPreviousWord \/ SelectToNextWord

SpecCursor == InitCursor /\ [][NextCursor]_vars

\* C24: after any sequence of cursor operations (left, right, up, down, home,
\* end, mouse down, the select_ handlers) on a buffer with characters of
\* several bytes, selected_range.start and selected_range.end lie on
\* character boundaries of the buffer.
C24_SelectionOnCharBoundaries ==
    ~crashed =>
        /\ IsCharBoundary(text, selected_range[1])
        /\ IsCharBoundary(text, selected_range[2])


(***************************************************************************)
(* The focus registry on its own (SpecFocus): every handler of focus.rs,    *)
(* with every id, handle and index, in any order, any number of times.      *)
(***************************************************************************)
InitFocus == new(Config("SingleLine", <<>>, "none", <<>>, FALSE, FALSE), None, TrackOff)

NextFocus ==
    \/ RegisterButtonHandler \/ RemoveFocus
    \/ RegisterFocusable \/ RegisterFocusableWithPriority \/ RegisterFocusableWithIndex
    \/ GetOrCreateFocusHandle \/ GetOrCreateFocusHandleWithPriority
    \/ GetOrCreateFocusHandleWithIndex
    \/ FocusNext \/ FocusPrevious \/ UnfocusAll \/ WindowFocus

SpecFocus == InitFocus /\ [][NextFocus]_vars

\* C25: after register_focusable_with_priority(id, handle), whether or not id
\* was registered before, id is at index 0 of the order, and a focus_next
\* called next with nothing focused gives the focus to its handle.
C25_PriorityIsFirst ==
    [][/\ last'.op = "register_focusable_with_priority" =>
              registry'.order[1] = last'.arg.id
       /\ (/\ last.op = "register_focusable_with_priority"
           /\ focused = None
           /\ last'.op = "focus_next") =>
              focused' = <<registry.handles[last.arg.id]>>]_vars


\* The characters of the text between the byte offsets a and b, whichever
\* order they come in, hold a line break.
LineBreakBetween(a, b) ==
    \E i \in 1..Len(text) :
        /\ text[i] = "n"
        /\ Min(a, b) <= CharStart(text, i)
        /\ CharStart(text, i) < Max(a, b)

\* C26: in the multi-line modes home and end keep the cursor inside its
\* logical line: home moves it to an offset <= the one it has, end to an
\* offset >= it, no '\n' lies between the old and the new position, and a
\* home that follows a home (an end that follows an end) leaves the cursor
\* where the first one put it.
C26_HomeEndWithinLine ==
    [][(/\ last'.op \in {"home", "end"}
        /\ is_multi_line(State)
        /\ ~crashed') =>
           /\ last'.op = "home" => cursor_offset(State)' <= cursor_offset(State)
           /\ last'.op = "end" => cursor_offset(State)' >= cursor_offset(State)
           /\ ~LineBreakBetween(cursor_offset(State), cursor_offset(State)')
           /\ last.op = last'.op => cursor_offset(State)' = cursor_offset(State)]_vars


\* C27: unselect, run by on_blur and by escape when the selection is not
\* empty, collapses selected_range to a point inside the selection it found:
\* old.start <= p <= old.end; so on_blur with an empty selection leaves the
\* cursor where it is.
C27_UnselectStaysInSelection ==
    [][(/\ \/ last'.op = "on_blur"
           \/ last'.op = "escape" /\ RangeLen(selected_range) > 0
        /\ ~crashed') =>
           /\ IsEmptyRange(selected_range')
           /\ selected_range[1] <= selected_range'[1]
           /\ selected_range'[1] <= selected_range[2]]_vars


(***************************************************************************)
(* Undo after set_value (SpecSeen): a plain single-line input, empty or     *)
(* holding "ab"; insert, replace, backspace, delete, set_value and undo,    *)
(* for MaxSeenSteps handlers, the values of the buffer being remembered.    *)
(***************************************************************************)
MaxSeenSteps == 3

InitSeen ==
    \E value \in {<<>>, <<"a", "b">>} :
        new(Config("SingleLine", <<>>, "none", value, FALSE, FALSE), <<MaxSeenSteps>>,
            TrackSeen(value))

NextSeen == Insert \/ Replace \/ Backspace \/ Delete \/ SetValue \/ Undo

SpecSeen == InitSeen /\ [][NextSeen]_vars

\* C28: on an input without mask and validator, after any sequence of insert,
\* replace, backspace, delete and set_value, an undo leaves the buffer equal
\* to a value that the buffer has held before, also when a set_value came
\* since the change that it takes back.
C28_UndoRestoresSeenValue ==
    [][(last'.op = "undo" /\ ~crashed') => text' \in track.seen]_vars


\* The handlers that register an element with a handle that the caller gives.
Registrations ==
    {"register_focusable", "register_focusable_with_priority", "register_focusable_with_index"}

RECURSIVE trim_start(_)
trim_start(t) == IF t # <<>> /\ Head(t) \in {"s", "n"} THEN trim_start(Tail(t)) ELSE t

RECURSIVE trim_end(_)
trim_end(t) ==
    IF t # <<>> /\ t[Len(t)] \in {"s", "n"} THEN trim_end(SubSeq(t, 1, Len(t) - 1)) ELSE t

trim(t) == trim_end(trim_start(t))

ChatState_add_message(c, role, parts) ==
    [c EXCEPT !.messages = Append(@, [id |-> c.last_id, role |-> role, parts |-> parts]),
              !.last_id = @ + 1]

ChatState_edit_message(c, id, new_parts) ==
    [c EXCEPT !.messages =
        [k \in 1..Len(c.messages) |->
            IF /\ c.messages[k].id = id
               /\ \A j \in 1..(k - 1) : c.messages[j].id # id
            THEN [c.messages[k] EXCEPT !.parts = new_parts]
            ELSE c.messages[k]]]

\* up as it would be without the statement that clears fake_focused_textarea
\* when no message had the focus.
ChatState_up_keeping_fake(c) ==
    IF c.messages = <<>> THEN [c EXCEPT !.focused_message_idx = None]
    ELSE IF c.focused_message_idx # None
         THEN [c EXCEPT !.fake_focused_textarea = FALSE,
                        !.focused_message_idx = <<SatSub(c.focused_message_idx[1], 1)>>]
         ELSE [c EXCEPT !.focused_message_idx = <<SatSub(Len(c.messages), 1)>>]

ChatState_up(c) ==
    IF c.messages = <<>> THEN [c EXCEPT !.focused_message_idx = None]
    ELSE LET len == Len(c.messages)
             moved == IF c.focused_message_idx # None
                      THEN [c EXCEPT !.fake_focused_textarea = FALSE,
                                     !.focused_message_idx =
                                         <<SatSub(c.focused_message_idx[1], 1)>>]
                      ELSE [c EXCEPT !.focused_message_idx = <<SatSub(len, 1)>>]
         IN  IF moved.fake_focused_textarea
             THEN [moved EXCEPT !.fake_focused_textarea = FALSE]
             ELSE moved

ChatState_down(c) ==
    LET len == Len(c.messages)
    IN  IF len = 0 THEN [c EXCEPT !.focused_message_idx = None]
        ELSE IF c.focused_message_idx # None /\ c.focused_message_idx[1] + 1 >= len
        THEN [c EXCEPT !.fake_focused_textarea = TRUE, !.focused_message_idx = None]
        ELSE IF c.focused_message_idx # None
        THEN [c EXCEPT !.focused_message_idx = <<c.focused_message_idx[1] + 1>>]
        ELSE IF ~c.fake_focused_textarea
        THEN [c EXCEPT !.focused_message_idx = <<0>>]
        ELSE [c EXCEPT !.focused_message_idx = None]

\* ActiveChat::submit_message, the part that writes the ChatState: the
\* trimmed text of the text area becomes a message of the user.
submit_message(c, value) ==
    IF trim(value) = <<>> THEN c ELSE ChatState_add_message(c, "User", trim(value))

start_editing_message(c, id) == [c EXCEPT !.edit_message_id = <<id>>]

on_cancel_click(c) == [c EXCEPT !.edit_message_id = None]

submit_edit_message(c, value) ==
    IF c.edit_message_id = None \/ trim(value) = <<>> THEN c
    ELSE on_cancel_click(ChatState_edit_message(c, c.edit_message_id[1], trim(value)))

\* The subscription to InputEvent::EmptyTextUp: the last message of the user
\* is edited.
on_empty_text_up(c) ==
    LET users == {k \in 1..Len(c.messages) : c.messages[k].role = "User"}
    IN  IF users = {} THEN c
        ELSE start_editing_message(c, c.messages[CHOOSE k \in users : \A j \in users : j <= k].id)

\* The handler of the action Edit: the message whose id is the focused index
\* is edited when the user wrote it.
on_edit_action(c) ==
    IF c.focused_message_idx = None THEN c
    ELSE LET id == c.focused_message_idx[1]
             found == {k \in 1..Len(c.messages) : c.messages[k].id = id}
         IN  IF found = {} THEN c
             ELSE IF c.messages[CHOOSE k \in found : \A j \in found : k <= j].role = "User"
             THEN start_editing_message(c, id)
             ELSE c

\* cx.on_focus(&a.focus_handle, ..)
on_focus_chat(c) ==
    IF c.focused_message_idx = None THEN [c EXCEPT !.fake_focused_textarea = TRUE] ELSE c

\* cx.on_blur(&a.focus_handle, ..)
on_blur_chat(c, window_active) ==
    IF window_active /\ c.edit_message_id = None
    THEN [c EXCEPT !.focused_message_idx = None, !.fake_focused_textarea = FALSE]
    ELSE c

\* cx.on_focus(&chat_textarea_focus_handle, ..)
on_focus_chat_textarea(c) ==
    [c EXCEPT !.focused_message_idx = None, !.fake_focused_textarea = FALSE]

\* The on_key_down listener that render installs while fake_focused_textarea
\* is set.
on_key_down_fake_focused(c, key) ==
    IF key = "tab" THEN c
    ELSE [c EXCEPT !.fake_focused_textarea = FALSE, !.focused_message_idx = None]

\* The messages a chat holds at most.
MaxMessages == 3

\* The keys the window delivers to the chat.
ChatKeys == {"tab", "a"}

\* The texts of the text area that holds an edited message.
EditValues == {<<>>, <<"s">>, <<"b">>}

\* One handler of the chat runs and leaves the chat r; the input is left
\* alone.
DoChat(op, arg, r) ==
    /\ chat' = r
    /\ last' = [op |-> op, tag |-> "none", arg |-> arg]
    /\ UNCHANGED <<input_vars, steps, track, conv, registry, focused>>

\* ActiveChat::submit_message: the text of the text area is sent, and the
\* text area is emptied when the application has an active window.
SubmitMessage ==
    /\ Len(chat.messages) < MaxMessages
    /\ ~crashed
    /\ \E active_window \in BOOLEAN :
          Commit(IF active_window THEN set_value(Begin, <<>>) ELSE State)
    /\ chat' = submit_message(chat, text)
    /\ last' = [op |-> "submit_message", tag |-> "none", arg |-> 0]
    /\ UNCHANGED <<steps, track, conv, registry, focused>>

\* What up and down leave in `last`: the focus they started from and the
\* handler that ran before them.
Before ==
    [focused_message_idx |-> chat.focused_message_idx,
     fake_focused_textarea |-> chat.fake_focused_textarea,
     after |-> last.op]

UpMessage ==
    /\ DoChat("up", Before, ChatState_up(chat))

DownMessage ==
    /\ DoChat("down", Before, ChatState_down(chat))

EditMessage ==
    /\ chat.focused_message_idx # None
    /\ DoChat("edit", 0, on_edit_action(chat))

EmptyTextUp ==
    /\ DoChat("empty_text_up", 0, on_empty_text_up(chat))

CancelClick ==
    /\ DoChat("on_cancel_click", 0, on_cancel_click(chat))

SubmitEditMessage ==
    /\ \E value \in EditValues :
          DoChat("submit_edit_message", 0, submit_edit_message(chat, value))

FocusChat ==
    /\ DoChat("on_focus", 0, on_focus_chat(chat))

BlurChat ==
    /\ \E window_active \in BOOLEAN :
          DoChat("on_blur", 0, on_blur_chat(chat, window_active))

FocusChatTextarea ==
    /\ DoChat("on_focus_textarea", 0, on_focus_chat_textarea(chat))

KeyDownFakeFocused ==
    /\ chat.fake_focused_textarea
    /\ \E key \in ChatKeys :
          DoChat("on_key_down", key, on_key_down_fake_focused(chat, key))

\* The chat's text area: an auto-growing input, holding nothing, a line feed
\* or a text that ends in one.
ChatConfigs ==
    {Config("AutoGrow", <<>>, "none", value, FALSE, FALSE) :
        value \in {<<>>, <<"n">>, <<"a", "n">>}}

InitChat == \E config \in ChatConfigs : new(config, None, TrackOff)

NextChat ==
    \/ SetValue \/ SubmitMessage
    \/ UpMessage \/ DownMessage
    \/ EditMessage \/ EmptyTextUp \/ CancelClick \/ SubmitEditMessage
    \/ FocusChat \/ BlurChat \/ FocusChatTextarea \/ KeyDownFakeFocused

SpecChat == InitChat /\ [][NextChat]_vars

\* C30: whatever the order of add_message, up, down and the focus, blur and
\* key handlers of the chat, focused_message_idx is None or an index below
\* the number of messages, and fake_focused_textarea is not set while a
\* message has the focus; down on the last message leaves no message focused
\* and fake_focused_textarea set, and an up right after it focuses the last
\* message and clears fake_focused_textarea.
C30_FocusedMessageInRange ==
    [][/\ chat'.focused_message_idx # None =>
              /\ chat'.focused_message_idx[1] < Len(chat'.messages)
              /\ ~chat'.fake_focused_textarea
       /\ (/\ last'.op = "down"
           /\ chat.focused_message_idx = <<Len(chat.messages) - 1>>) =>
              /\ chat'.focused_message_idx = None
              /\ chat'.fake_focused_textarea
       /\ (/\ last'.op = "up"
           /\ last.op = "down"
           /\ chat.focused_message_idx = None
           /\ chat.fake_focused_textarea
           /\ chat.messages # <<>>) =>
              /\ chat'.focused_message_idx = <<Len(chat'.messages) - 1>>
              /\ ~chat'.fake_focused_textarea]_vars

\* With three messages, down left the last one and the up after it has put
\* the focus back on it.
C30_Witness ==
    /\ last.op = "up"
    /\ last.arg.after = "down"
    /\ last.arg.focused_message_idx = None
    /\ last.arg.fake_focused_textarea
    /\ Len(chat.messages) = 3
    /\ chat.focused_message_idx = <<2>>
    /\ ~chat.fake_focused_textarea

=============================================================================
